---- MODULE Spec2Model ----
(***************************************************************************)
(* A state-machine model of drivers/firmware/qcom_scm.c: the resource      *)
(* gate (clock and interconnect votes), the calling-convention negotiator, *)
(* the call dispatcher, and the facades built on them.                     *)
(***************************************************************************)
EXTENDS Integers, Sequences, FiniteSets, TLC

(* ------------------------------ bounds -------------------------------- *)

\* Number of concurrently running kernel threads.
NThreads == 2

\* Cap on |scm_vote_count| in the specification of bare votes.
MaxVote == 2

\* Number of threads that run the facades (whose calls share no state
\* beyond the resource gate).
NFacadeThreads == 1

\* Cap on the clock enables and on the buffers that returned operations
\* left behind, above which no further operation is started.
MaxLeak == 1

Threads == 1..NThreads

FacadeThreads == 1..NFacadeThreads

NoThread == 0

(* ------------------------- program constants -------------------------- *)

ENOMEM == 12

EINVAL == 22

EPERM == 1

ERANGE == 34

(* ------------------------------- state -------------------------------- *)

VARIABLES
    path,             \* __scm->path: "null" (no interconnect) or "valid"
    scm_vote_count,   \* __scm->scm_vote_count
    scm_bw_lock,      \* __scm->scm_bw_lock: the holder, or NoThread
    icc_bw,           \* the bandwidth last requested with icc_set_bw
    clk_count,        \* enable count of core_clk, iface_clk, bus_clk
    pc,               \* position of each thread
    op,               \* the operation each thread is running
    ret,              \* the local 'ret' of the running operation
    held_clk,         \* clocks the running operation enabled and did not disable
    held_bw,          \* votes the running operation took and did not drop
    qcom_scm_convention, \* the global qcom_scm_convention
    res0,             \* res.result[0] of the running operation
    invoked,          \* the transport the running operation entered, or "none"
    buf,              \* the transport buffers of the running operation
    use_ctx,          \* qcom_scm_pas_init_image: ctx != NULL
    ctx_ptr,          \* the caller's qcom_scm_pas_metadata: ptr != NULL
    bufs_live,        \* transport buffers allocated and not yet freed
    shmbridge,        \* qtee_shmbridge_is_enabled()
    caller_out,       \* whether the operation wrote the caller's output buffer
    arm64,            \* IS_ENABLED(CONFIG_ARM64)
    sc7180,           \* of_device_is_compatible(..., "qcom,scm-sc7180")
    scm_query_lock,   \* the spinlock scm_query_lock: the holder, or NoThread
    probed_convention, \* __get_convention: the local probed_convention
    forced,           \* __get_convention: the local forced
    p64,              \* the answer to this call's 64-bit probe, if issued
    p32,              \* the answer to this call's 32-bit probe, if issued
    gc_ret,           \* the value __get_convention returned
    probe_runs,       \* probe sequences begun since boot
    published,        \* the probed conventions stored under scm_query_lock
    clk_log,          \* the clock operations the current call has performed
    icc_tick,         \* flips at every icc_set_bw call
    srcvm,            \* qcom_scm_assign_mem: the caller's *srcvm, as its set of bits
    srcvm_bits,       \* qcom_scm_assign_mem: the local srcvm_bits
    newvm,            \* qcom_scm_assign_mem: the vmids of the destination entries
    next_vm,          \* qcom_scm_assign_mem: the bits of the local int next_vm
    waitq_done,       \* __scm->waitq_comp: completions delivered and not yet consumed
    wq_arg,           \* qcom_scm_wait_for_wq_completion: the argument wq_ctx
    irq_pc,           \* qcom_scm_irq_handler: its position
    irq_ans,          \* qcom_scm_irq_handler: ret, wq_ctx, flags, more_pending
    irq_queries,      \* scm_get_wq_ctx calls of the current handler run
    irq_wakes,        \* completions delivered by the current handler run
    wq_credit,        \* wakes delivered less waits returned
    download_mode,    \* the module parameter download_mode
    dload_mode_addr,  \* __scm->dload_mode_addr (0: none configured)
    boot_pc,          \* position of the platform driver: probe, up, shutdown
    dl_pc,            \* qcom_scm_set_download_mode: its position
    dl_enable,        \* qcom_scm_set_download_mode: the argument enable
    dl_avail,         \* qcom_scm_set_download_mode: the local avail
    dl_ret,           \* qcom_scm_set_download_mode: the local ret
    dl_used,          \* the mechanisms the current invocation used, in order
    dl_err,           \* the current invocation logged "No available mechanism"
    dl_sent,          \* the values sent by any mechanism since boot, in order
    ptbl_res,         \* qcom_scm_iommu_secure_ptbl_init: what qcom_scm_call returned
    buf_log,          \* key operations: what the running operation did to its buffers, in order
    atos_lock,        \* arm-smmu-qcom-tbu.c: the spinlock(s) taken for ATOS: the holder, or NoThread
    halt_count,       \* tbu->halt_count of each TBU
    halt_req,         \* DEBUG_SID_HALT_VAL in DEBUG_SID_HALT_REG of each TBU
    tbu_bw,           \* the bandwidth last requested on tbu->path
    tbu_clk,          \* enable count of tbu->clk
    sctlr,            \* ARM_SMMU_CB_SCTLR of each context bank: CFCFG | CFIE set
    a_pc,             \* qsmmuv500_iova_to_phys: position of each caller
    a_tbu,            \* qsmmuv500_iova_to_phys: the TBU found for sid, 0 if none
    a_cb,             \* qsmmuv500_iova_to_phys: smmu_domain->cfg.cbndx
    a_sctlr_orig,     \* qsmmuv500_iova_to_phys: the local sctlr_orig
    a_tries,          \* qsmmuv500_tbu_trigger_atos calls of the running call
    a_phys,           \* qsmmuv500_iova_to_phys: the local phys
    a_out,            \* the value qsmmuv500_iova_to_phys returned
    pas_state,        \* the lifecycle state the accepted PAS commands put the peripheral in
    pas_prev,         \* the lifecycle state before the last accepted PAS command
    scm_present,      \* __scm is set: the SCM device has been probed
    present_cpus,     \* the CPUs of cpu_present_mask
    bt_pc,            \* qcom_scm_set_{warm,cold}_boot_addr: its position
    bt_kind,          \* "warm" or "cold"
    bt_mc_ret,        \* what qcom_scm_set_boot_addr_mc returned
    bt_ret,           \* what the running call returns
    bt_calls,         \* the firmware calls the running call issued, in order
    cb_fsr,           \* ARM_SMMU_CB_FSR of each context bank
    cf_pc,            \* qcom_smmu_context_fault on each context bank: its position
    cf_fsr,           \* qcom_smmu_context_fault: the local fsr
    cf_tmp,           \* qcom_smmu_context_fault: the local tmp
    cf_log,           \* the register writes of the running handler, in order
    cf_ret,           \* qcom_smmu_context_fault: the value returned
    halt_lock,        \* tbu->halt_lock of each TBU: the holder, or NoThread
    h_pc,             \* qsmmuv500_tbu_halt / _resume called directly: position of each caller
    h_op,             \* "halt" or "resume"
    h_tbu,            \* the TBU the call is on
    h_ret,            \* the value qsmmuv500_tbu_halt returns
    h_c0,             \* halt_count when the caller took halt_lock
    h_r0,             \* the halt request when the caller took halt_lock
    tbu_list,         \* qsmmu->tbu_list: the sid_range of each registered TBU, in list order
    f_sid,            \* qsmmuv500_find_tbu: the argument sid
    f_pc,             \* qsmmuv500_find_tbu: its position
    f_res             \* qsmmuv500_find_tbu: the pointer returned

gate_vars == <<path, scm_vote_count, scm_bw_lock, icc_bw, clk_count>>

thread_vars == <<pc, op, ret, held_clk, held_bw>>

call_vars == <<qcom_scm_convention, res0, invoked>>

buf_vars == <<buf, use_ctx, ctx_ptr, bufs_live, shmbridge, caller_out>>

neg_vars == <<arm64, sc7180, scm_query_lock, probed_convention, forced, p64, p32,
              gc_ret, probe_runs, published>>

clk_vars == <<clk_log>>

icc_vars == <<icc_tick>>

mem_vars == <<srcvm, srcvm_bits, newvm, next_vm>>

wq_vars == <<waitq_done, wq_arg, irq_pc, irq_ans, irq_queries, irq_wakes, wq_credit>>

dl_vars == <<download_mode, dload_mode_addr, boot_pc, dl_pc, dl_enable, dl_avail, dl_ret,
             dl_used, dl_err, dl_sent>>

ptbl_vars == <<ptbl_res>>

key_vars == <<buf_log>>

tbu_vars == <<atos_lock, halt_count, halt_req, tbu_bw, tbu_clk, sctlr>>

atos_vars == <<tbu_vars, a_pc, a_tbu, a_cb, a_sctlr_orig, a_tries, a_phys, a_out>>

pas_vars == <<pas_state, pas_prev>>

boot_vars == <<scm_present, present_cpus, bt_pc, bt_kind, bt_mc_ret, bt_ret, bt_calls>>

fault_vars == <<cb_fsr, cf_pc, cf_fsr, cf_tmp, cf_log, cf_ret>>

hl_vars == <<halt_lock, h_pc, h_op, h_tbu, h_ret, h_c0, h_r0>>

find_vars == <<tbu_list, f_sid, f_pc, f_res>>

tail_vars == <<boot_vars, fault_vars, hl_vars, find_vars>>

late_vars == <<dl_vars, ptbl_vars, key_vars, atos_vars, pas_vars, tail_vars>>

more_vars == <<mem_vars, wq_vars, late_vars>>

ext_vars == <<clk_vars, icc_vars, more_vars>>

vars == <<gate_vars, thread_vars, call_vars, buf_vars, neg_vars, ext_vars>>

early_vars == <<gate_vars, thread_vars, call_vars, buf_vars, neg_vars, clk_vars, icc_vars,
                mem_vars, wq_vars>>

not_dl_vars == <<early_vars, ptbl_vars, key_vars, atos_vars, pas_vars, tail_vars>>

not_atos_vars == <<early_vars, dl_vars, ptbl_vars, key_vars, pas_vars, tail_vars>>

pre_tail_vars == <<early_vars, dl_vars, ptbl_vars, key_vars, atos_vars, pas_vars>>

pre_tail_vars_less_halt ==
    <<early_vars, dl_vars, ptbl_vars, key_vars, pas_vars, atos_lock, tbu_bw, tbu_clk, sctlr,
      a_pc, a_tbu, a_cb, a_sctlr_orig, a_tries, a_phys, a_out>>

\* What the firmware call of a gated operation leaves alone beside the gate.
gate_ext == <<clk_vars, icc_vars, mem_vars, wq_vars, dl_vars, ptbl_vars, key_vars, atos_vars,
              tail_vars>>

\* What the key operations leave alone beside the gate and the buffers.
key_ext == <<clk_vars, icc_vars, mem_vars, wq_vars, dl_vars, ptbl_vars, atos_vars, pas_vars,
             tail_vars>>

\* What a facade made of one qcom_scm_call leaves alone.
call_rest == <<gate_vars, held_clk, held_bw, qcom_scm_convention, res0, buf_vars, neg_vars,
               clk_vars, icc_vars, mem_vars, wq_vars, dl_vars, key_vars, atos_vars, pas_vars,
               tail_vars>>

Clocks == <<"core", "iface", "bus">>

ClockNames == {"core", "iface", "bus"}

(* --------------------------- ResourceGate ----------------------------- *)

\* qcom_scm_bw_enable, first half: the path checks and mutex_lock.
bw_enable_lock(t, next, skip) ==
    /\ IF path = "null"
       THEN /\ ret' = [ret EXCEPT ![t] = 0]
            /\ pc' = [pc EXCEPT ![t] = skip]
            /\ UNCHANGED scm_bw_lock
       ELSE /\ scm_bw_lock = NoThread
            /\ scm_bw_lock' = t
            /\ pc' = [pc EXCEPT ![t] = next]
            /\ UNCHANGED ret
    /\ UNCHANGED <<ext_vars, neg_vars, path, scm_vote_count, icc_bw, clk_count, op, held_clk, held_bw,
                   call_vars, buf_vars>>

\* The count qcom_scm_bw_disable leaves: scm_vote_count-- is unconditional.
bw_disable_count(c) == c - 1

bw_enable_raises_first_two(c) == c <= 1

\* Whether qcom_scm_bw_enable raises the bandwidth: the count is 0.
bw_enable_raises(c) == c = 0

bw_disable_drops_at_zero(c) == c = 0

\* Whether qcom_scm_bw_disable drops the bandwidth: the count was 1.
bw_disable_drops(c) == c = 1

bw_enable_fail_count_voted(c) == c + 1

\* The count qcom_scm_bw_enable leaves when icc_set_bw fails: 'goto err_bw'
\* skips scm_vote_count++.
bw_enable_fail_count(c) == c

\* qcom_scm_bw_enable, second half: the vote under the mutex, mutex_unlock.
bw_enable_body(t, ok, fail) ==
    /\ scm_bw_lock = t
    /\ \E icc_ok \in BOOLEAN :
         IF bw_enable_raises(scm_vote_count) /\ ~icc_ok
         THEN /\ ret' = [ret EXCEPT ![t] = -EINVAL]
              /\ pc' = [pc EXCEPT ![t] = fail]
              /\ scm_vote_count' = bw_enable_fail_count(scm_vote_count)
              /\ UNCHANGED <<icc_bw, held_bw>>
         ELSE /\ icc_bw' = IF bw_enable_raises(scm_vote_count) THEN "max" ELSE icc_bw
              /\ scm_vote_count' = scm_vote_count + 1
              /\ held_bw' = [held_bw EXCEPT ![t] = @ + 1]
              /\ ret' = [ret EXCEPT ![t] = 0]
              /\ pc' = [pc EXCEPT ![t] = ok]
    /\ icc_tick' = IF bw_enable_raises(scm_vote_count) THEN 1 - icc_tick ELSE icc_tick
    /\ scm_bw_lock' = NoThread
    /\ UNCHANGED <<clk_vars, more_vars, neg_vars, path, clk_count, op, held_clk, call_vars, buf_vars>>

\* qcom_scm_bw_disable, first half: the path check and mutex_lock.
bw_disable_lock(t, next, skip) ==
    /\ IF path = "null"
       THEN /\ pc' = [pc EXCEPT ![t] = skip]
            /\ UNCHANGED scm_bw_lock
       ELSE /\ scm_bw_lock = NoThread
            /\ scm_bw_lock' = t
            /\ pc' = [pc EXCEPT ![t] = next]
    /\ UNCHANGED <<ext_vars, neg_vars, path, scm_vote_count, icc_bw, clk_count, op, ret, held_clk, held_bw,
                   call_vars, buf_vars>>

\* qcom_scm_bw_disable, second half: the decrement under the mutex.
bw_disable_body(t, next) ==
    /\ scm_bw_lock = t
    /\ icc_bw' = IF bw_disable_drops(scm_vote_count) THEN "zero" ELSE icc_bw
    /\ scm_vote_count' = bw_disable_count(scm_vote_count)
    /\ held_bw' = [held_bw EXCEPT ![t] = @ - 1]
    /\ icc_tick' = IF bw_disable_drops(scm_vote_count) THEN 1 - icc_tick ELSE icc_tick
    /\ scm_bw_lock' = NoThread
    /\ pc' = [pc EXCEPT ![t] = next]
    /\ UNCHANGED <<clk_vars, more_vars, neg_vars, path, clk_count, op, ret, held_clk, call_vars, buf_vars>>

(* ------------------- bare votes: any sequence of calls ---------------- *)

\* A thread calls qcom_scm_bw_enable.
CallBwEnable(t) ==
    /\ pc[t] = "idle"
    /\ scm_vote_count < MaxVote
    /\ op' = [op EXCEPT ![t] = "bw_enable"]
    /\ pc' = [pc EXCEPT ![t] = "bw_enable"]
    /\ UNCHANGED <<ext_vars, neg_vars, gate_vars, ret, held_clk, held_bw, call_vars, buf_vars>>

\* A thread calls qcom_scm_bw_disable.
CallBwDisable(t) ==
    /\ pc[t] = "idle"
    /\ scm_vote_count > -MaxVote
    /\ op' = [op EXCEPT ![t] = "bw_disable"]
    /\ pc' = [pc EXCEPT ![t] = "bw_disable"]
    /\ UNCHANGED <<ext_vars, neg_vars, gate_vars, ret, held_clk, held_bw, call_vars, buf_vars>>

BwEnableLock(t) ==
    /\ pc[t] = "bw_enable"
    /\ op[t] = "bw_enable"
    /\ bw_enable_lock(t, "bw_enable_body", "done")

BwEnableBody(t) ==
    /\ pc[t] = "bw_enable_body"
    /\ op[t] = "bw_enable"
    /\ bw_enable_body(t, "done", "done")

BwDisableLock(t) ==
    /\ pc[t] = "bw_disable"
    /\ op[t] = "bw_disable"
    /\ bw_disable_lock(t, "bw_disable_body", "done")

BwDisableBody(t) ==
    /\ pc[t] = "bw_disable_body"
    /\ op[t] = "bw_disable"
    /\ bw_disable_body(t, "done")

\* The call has returned to its caller; the thread is free again.
BwReturn(t) ==
    /\ pc[t] = "done"
    /\ pc' = [pc EXCEPT ![t] = "idle"]
    /\ op' = [op EXCEPT ![t] = "none"]
    /\ ret' = [ret EXCEPT ![t] = 0]
    /\ held_bw' = [held_bw EXCEPT ![t] = 0]
    /\ held_clk' = [held_clk EXCEPT ![t] = 0]
    /\ UNCHANGED <<ext_vars, neg_vars, gate_vars, call_vars, buf_vars>>

InitDlIdle ==
    /\ download_mode = FALSE
    /\ dload_mode_addr = 0
    /\ boot_pc = "up"
    /\ dl_pc = "idle"
    /\ dl_enable = FALSE
    /\ dl_avail = FALSE
    /\ dl_ret = 0
    /\ dl_used = <<>>
    /\ dl_err = FALSE
    /\ dl_sent = <<>>

InitPtblIdle == ptbl_res = [t \in Threads |-> 0]

InitKeyIdle == buf_log = [t \in Threads |-> <<>>]

\* Number of concurrent callers of qsmmuv500_iova_to_phys.
NAtosThreads == 2

AtosThreads == 1..NAtosThreads

\* The registered TBUs.
TBUs == {1, 2}

\* The context banks the callers translate for. The only caller is the
\* context fault handler (qcom_smmu_verify_fault), which does not run
\* concurrently with itself for one context bank: caller t works on bank t.
Banks == AtosThreads

\* The lock(s) of the ATOS sequence: lock 0 is the file-scope atos_lock.
AtosLocks == {0} \cup TBUs

\* After the TBU drivers probed: nothing halted, no bandwidth requested, the
\* clocks off, fault reporting enabled in every context bank.
InitTbu ==
    /\ atos_lock = [l \in AtosLocks |-> NoThread]
    /\ halt_count = [u \in TBUs |-> 0]
    /\ halt_req = [u \in TBUs |-> FALSE]
    /\ tbu_bw = [u \in TBUs |-> "zero"]
    /\ tbu_clk = [u \in TBUs |-> 0]
    /\ sctlr = [b \in Banks |-> TRUE]
    /\ a_pc = [t \in AtosThreads |-> "idle"]
    /\ a_tbu = [t \in AtosThreads |-> 0]
    /\ a_cb = [t \in AtosThreads |-> 1]
    /\ a_sctlr_orig = [t \in AtosThreads |-> TRUE]
    /\ a_tries = [t \in AtosThreads |-> 0]
    /\ a_phys = [t \in AtosThreads |-> 0]
    /\ a_out = [t \in AtosThreads |-> 0]

\* The peripheral's lifecycle is not followed.
InitPasUntracked ==
    /\ pas_state = "untracked"
    /\ pas_prev = "untracked"

\* No boot address is being set; the SCM device is probed, CPU 0 present.
InitBootIdle ==
    /\ scm_present = TRUE
    /\ present_cpus = {0}
    /\ bt_pc = "idle"
    /\ bt_kind = "warm"
    /\ bt_mc_ret = 0
    /\ bt_ret = 0
    /\ bt_calls = <<>>

\* The context banks of the fault handler.
NFaultBanks == 2

FaultBanks == 1..NFaultBanks

\* An FSR value: a fault bit of ARM_SMMU_FSR_FAULT, and ARM_SMMU_FSR_SS.
NoFsr == [fault |-> FALSE, ss |-> FALSE]

\* No context fault is being handled and none is recorded.
InitFaultIdle ==
    /\ cb_fsr = [b \in FaultBanks |-> NoFsr]
    /\ cf_pc = [b \in FaultBanks |-> "idle"]
    /\ cf_fsr = [b \in FaultBanks |-> NoFsr]
    /\ cf_tmp = [b \in FaultBanks |-> 0]
    /\ cf_log = [b \in FaultBanks |-> <<>>]
    /\ cf_ret = [b \in FaultBanks |-> "none"]

\* Nobody calls qsmmuv500_tbu_halt or qsmmuv500_tbu_resume directly.
InitHaltIdle ==
    /\ halt_lock = [u \in TBUs |-> NoThread]
    /\ h_pc = [t \in AtosThreads |-> "idle"]
    /\ h_op = [t \in AtosThreads |-> "none"]
    /\ h_tbu = [t \in AtosThreads |-> 1]
    /\ h_ret = [t \in AtosThreads |-> 0]
    /\ h_c0 = [t \in AtosThreads |-> 0]
    /\ h_r0 = [t \in AtosThreads |-> FALSE]

\* What qsmmuv500_find_tbu returns: NULL, a registered TBU (by position in
\* the list), or the cursor list_for_each_entry is left with when the loop
\* runs off the end: the container of the list head, which is no TBU.
NullTbu == [kind |-> "NULL", idx |-> 0]

\* No lookup is running; no TBU is registered.
InitFindIdle ==
    /\ tbu_list = <<>>
    /\ f_sid = 0
    /\ f_pc = "idle"
    /\ f_res = NullTbu

InitTailIdle == InitBootIdle /\ InitFaultIdle /\ InitHaltIdle /\ InitFindIdle

InitLate ==
    InitDlIdle /\ InitPtblIdle /\ InitKeyIdle /\ InitTbu /\ InitPasUntracked /\ InitTailIdle

InitThreadsEarly ==
    /\ clk_log = [t \in Threads |-> <<>>]
    /\ icc_tick = 0
    /\ srcvm = [t \in Threads |-> {}]
    /\ srcvm_bits = [t \in Threads |-> {}]
    /\ newvm = [t \in Threads |-> <<>>]
    /\ next_vm = [t \in Threads |-> {}]
    /\ waitq_done = 0
    /\ wq_arg = [t \in Threads |-> 0]
    /\ irq_pc = "idle"
    /\ irq_ans = [ret |-> 0, wq_ctx |-> 0, flags |-> 0, more |-> FALSE]
    /\ irq_queries = 0
    /\ irq_wakes = 0
    /\ wq_credit = 0
    /\ pc = [t \in Threads |-> "idle"]
    /\ op = [t \in Threads |-> "none"]
    /\ ret = [t \in Threads |-> 0]
    /\ held_clk = [t \in Threads |-> 0]
    /\ held_bw = [t \in Threads |-> 0]

InitThreads ==
    /\ InitLate
    /\ InitThreadsEarly

\* After qcom_scm_probe: devm_of_icc_get gave no path or a valid one (probe
\* fails on an error pointer), the mutex is free, nothing is voted.
InitGate ==
    /\ path \in {"null", "valid"}
    /\ scm_vote_count = 0
    /\ scm_bw_lock = NoThread
    /\ icc_bw = "zero"
    /\ clk_count = [c \in ClockNames |-> 0]

NoBuf == [st |-> "none", content |-> "zero", role |-> "none",
          flushed |-> FALSE, inval |-> FALSE]

InitCall ==
    /\ res0 = [t \in Threads |-> 0]
    /\ invoked = [t \in Threads |-> "none"]

InitBuf ==
    /\ buf = [t \in Threads |-> [i \in 1..2 |-> NoBuf]]
    /\ use_ctx = [t \in Threads |-> FALSE]
    /\ ctx_ptr = [t \in Threads |-> FALSE]
    /\ bufs_live = 0
    /\ caller_out = [t \in Threads |-> FALSE]

\* The operations of this specification never read qtee_shmbridge_is_enabled().
InitNoBridge == shmbridge = FALSE

\* No probe of this call has been issued.
NoProbe == [issued |-> FALSE, ret |-> 0, word |-> 0]

\* The locals of __get_convention before any call.
InitNegLocals ==
    /\ scm_query_lock = NoThread
    /\ probed_convention = [t \in Threads |-> "UNKNOWN"]
    /\ forced = [t \in Threads |-> FALSE]
    /\ p64 = [t \in Threads |-> NoProbe]
    /\ p32 = [t \in Threads |-> NoProbe]
    /\ gc_ret = [t \in Threads |-> "UNKNOWN"]

\* qcom_scm_probe has run __get_convention: the convention is resolved.
InitResolved ==
    /\ qcom_scm_convention \in {"ARM_32", "ARM_64", "LEGACY"}
    /\ arm64 = (qcom_scm_convention = "ARM_64")
    /\ sc7180 = FALSE
    /\ InitNegLocals
    /\ probe_runs = 1
    /\ published = {qcom_scm_convention}

InitBw == InitGate /\ InitThreads /\ InitCall /\ InitBuf /\ InitResolved /\ InitNoBridge

NextBw ==
    \E t \in Threads :
        \/ CallBwEnable(t)
        \/ CallBwDisable(t)
        \/ BwEnableLock(t)
        \/ BwEnableBody(t)
        \/ BwDisableLock(t)
        \/ BwDisableBody(t)
        \/ BwReturn(t)

SpecBw == InitBw /\ [][NextBw]_vars

(* ----------------------------- dispatcher ----------------------------- *)

\* qcom_scm_call and qcom_scm_call_atomic: the switch on __get_convention().
\* "smc" is scm_smc_call, "legacy" is scm_legacy_call(_atomic), "none" is
\* the default branch, which returns -EINVAL.
qcom_scm_call_transport_default(conv, atomic) ==
    IF conv = "LEGACY" THEN (IF atomic THEN "legacy_atomic" ELSE "legacy")
    ELSE (IF atomic THEN "smc_atomic" ELSE "smc")

qcom_scm_call_transport(conv, atomic) ==
    IF conv \in {"ARM_32", "ARM_64"} THEN (IF atomic THEN "smc_atomic" ELSE "smc")
    ELSE IF conv = "LEGACY" THEN (IF atomic THEN "legacy_atomic" ELSE "legacy")
    ELSE "none"

\* What a transport call can return: 0 or a negative errno.
FwRet == {0, -EINVAL}

\* What the firmware can leave in res.result[0].
FwWord == {0, 1}

\* qcom_scm_call on the convention conv: dispatch, then the firmware's answer.
scm_call(t, conv, atomic, next) ==
    /\ invoked' = [invoked EXCEPT ![t] = qcom_scm_call_transport(conv, atomic)]
    /\ IF qcom_scm_call_transport(conv, atomic) = "none"
       THEN /\ ret' = [ret EXCEPT ![t] = -EINVAL]
            /\ UNCHANGED res0
       ELSE \E r \in FwRet, w \in FwWord :
                /\ ret' = [ret EXCEPT ![t] = r]
                /\ res0' = [res0 EXCEPT ![t] = w]
    /\ pc' = [pc EXCEPT ![t] = next]

(* --------------------------- gated facades ---------------------------- *)

\* Operations that take the clocks and the bandwidth vote around one call.
PasOps == {"pas_init_image", "pas_mem_setup", "pas_auth_and_reset", "pas_shutdown"}

\* Operations that take only the clocks around one call.
ClkOps == {"disable_sdi", "hdcp_req", "hdcp_available"}

GatedOps == PasOps \cup ClkOps

\* clk_prepare_enable of core, iface, bus in that order; 'fail' is the stage
\* that fails ("none": all succeed). The labels disable_iface and
\* disable_core undo the stages already enabled.
clk_enable_counts(cnt, fail) ==
    IF fail = "core" THEN cnt
    ELSE LET c1 == [cnt EXCEPT !["core"] = @ + 1] IN
         IF fail = "iface" THEN [c1 EXCEPT !["core"] = @ - 1]
         ELSE LET c2 == [c1 EXCEPT !["iface"] = @ + 1] IN
              IF fail = "bus"
              THEN [c2 EXCEPT !["iface"] = @ - 1, !["core"] = @ - 1]
              ELSE [c2 EXCEPT !["bus"] = @ + 1]

\* qcom_scm_clk_disable: clk_disable_unprepare of the three clocks.
clk_disable_counts(cnt) == [c \in ClockNames |-> cnt[c] - 1]

\* The value a facade returns after its call: 'ret ? : res.result[0]' for
\* the PAS operations and qcom_scm_disable_sdi, 'ret' for qcom_scm_hdcp_req,
\* 'ret ? false : !!res.result[0]' for qcom_scm_hdcp_available.
facade_return(o, r, w) ==
    IF o = "hdcp_req" THEN r
    ELSE IF o = "hdcp_available" THEN (IF r # 0 THEN 0 ELSE IF w # 0 THEN 1 ELSE 0)
    ELSE IF r # 0 THEN r ELSE w

RECURSIVE SumOver(_, _)
SumOver(f, S) ==
    IF S = {} THEN 0
    ELSE LET x == CHOOSE y \in S : TRUE IN f[x] + SumOver(f, S \ {x})

\* Clock enables that no running operation holds.
LeakedClk == clk_count["core"] - SumOver(held_clk, Threads)

\* Buffers that neither a running operation nor a context owns.
LeakedBuf ==
    bufs_live - Cardinality({x \in Threads \X (1..2) : buf[x[1]][x[2]].st = "live"})
              - Cardinality({t \in Threads : ctx_ptr[t]})

\* The caps that keep the leaked resources of this model finite.
GateRoom ==
    /\ LeakedClk < MaxLeak
    /\ LeakedBuf < MaxLeak

\* A thread calls qcom_scm_pas_init_image, with or without a context.
CallPasInitImage(t) ==
    /\ pc[t] = "idle"
    /\ GateRoom
    /\ op' = [op EXCEPT ![t] = "pas_init_image"]
    /\ pc' = [pc EXCEPT ![t] = "alloc"]
    /\ \E c \in BOOLEAN : use_ctx' = [use_ctx EXCEPT ![t] = c]
    /\ UNCHANGED <<ext_vars, neg_vars, gate_vars, ret, held_clk, held_bw, call_vars, buf, ctx_ptr, bufs_live,
                   shmbridge, caller_out>>

\* A thread calls one of the other gated operations.
CallGated(t) ==
    /\ pc[t] = "idle"
    /\ GateRoom
    /\ \E o \in GatedOps \ {"pas_init_image", "hdcp_req"} :
           op' = [op EXCEPT ![t] = o]
    /\ pc' = [pc EXCEPT ![t] = "clk_enable"]
    /\ UNCHANGED <<ext_vars, neg_vars, gate_vars, ret, held_clk, held_bw, call_vars, buf_vars>>

\* A thread calls qcom_scm_hdcp_req: req_cnt above the maximum is -ERANGE.
CallHdcpReq(t) ==
    /\ pc[t] = "idle"
    /\ GateRoom
    /\ op' = [op EXCEPT ![t] = "hdcp_req"]
    /\ \E in_range \in BOOLEAN :
         IF in_range
         THEN /\ pc' = [pc EXCEPT ![t] = "clk_enable"]
              /\ UNCHANGED ret
         ELSE /\ pc' = [pc EXCEPT ![t] = "done"]
              /\ ret' = [ret EXCEPT ![t] = -ERANGE]
    /\ UNCHANGED <<ext_vars, neg_vars, gate_vars, held_clk, held_bw, call_vars, buf_vars>>

\* qcom_scm_pas_init_image: dma_alloc_coherent and the memcpy of the metadata.
PasAlloc(t) ==
    /\ pc[t] = "alloc"
    /\ op[t] = "pas_init_image"
    /\ \E ok \in BOOLEAN :
         IF ok
         THEN /\ buf' = [buf EXCEPT ![t][1] = [NoBuf EXCEPT !.st = "live",
                                               !.content = "data", !.role = "in"]]
              /\ bufs_live' = bufs_live + 1
              /\ pc' = [pc EXCEPT ![t] = "clk_enable"]
              /\ UNCHANGED ret
         ELSE /\ ret' = [ret EXCEPT ![t] = -ENOMEM]
              /\ pc' = [pc EXCEPT ![t] = "done"]
              /\ UNCHANGED <<buf, bufs_live>>
    /\ UNCHANGED <<ext_vars, neg_vars, gate_vars, op, held_clk, held_bw, call_vars, use_ctx, ctx_ptr,
                   shmbridge, caller_out>>

\* Where a gated operation goes when qcom_scm_clk_enable fails:
\* qcom_scm_pas_init_image jumps to 'out', the others return.
clk_fail_target(o) == IF o = "pas_init_image" THEN "out" ELSE "done"

\* What a gated operation returns when qcom_scm_clk_enable fails with r:
\* qcom_scm_hdcp_available returns 'ret' as a bool.
clk_fail_return(o, r) == IF o = "hdcp_available" THEN 1 ELSE r

\* qcom_scm_clk_enable, called by a gated operation.
GateClkEnable(t) ==
    /\ pc[t] = "clk_enable"
    /\ op[t] \in GatedOps
    /\ \E fail \in {"none", "core", "iface", "bus"} :
         /\ clk_count' = clk_enable_counts(clk_count, fail)
         /\ IF fail = "none"
            THEN /\ held_clk' = [held_clk EXCEPT ![t] = @ + 1]
                 /\ ret' = [ret EXCEPT ![t] = 0]
                 /\ pc' = [pc EXCEPT ![t] =
                             IF op[t] \in PasOps THEN "bw_enable" ELSE "call"]
            ELSE /\ ret' = [ret EXCEPT ![t] = clk_fail_return(op[t], -EINVAL)]
                 /\ pc' = [pc EXCEPT ![t] = clk_fail_target(op[t])]
                 /\ UNCHANGED held_clk
    /\ UNCHANGED <<ext_vars, neg_vars, path, scm_vote_count, scm_bw_lock, icc_bw, op, held_bw,
                   call_vars, buf_vars>>

\* Where a PAS operation goes when qcom_scm_bw_enable fails: 'return ret'.
bw_fail_target(o) == "done"

\* qcom_scm_bw_enable, called by a PAS operation.
GateBwEnableLock(t) ==
    /\ pc[t] = "bw_enable"
    /\ op[t] \in PasOps
    /\ bw_enable_lock(t, "bw_enable_body", "call")

GateBwEnableBody(t) ==
    /\ pc[t] = "bw_enable_body"
    /\ op[t] \in PasOps
    /\ bw_enable_body(t, "call", bw_fail_target(op[t]))

pas_cmd_all_init(o) == "PAS_INIT_IMAGE"

\* desc.cmd of the four PAS operations.
pas_cmd(o) ==
    IF o = "pas_init_image" THEN "PAS_INIT_IMAGE"
    ELSE IF o = "pas_mem_setup" THEN "PAS_MEM_SETUP"
    ELSE IF o = "pas_auth_and_reset" THEN "PAS_AUTH_AND_RESET"
    ELSE "PAS_SHUTDOWN"

\* The lifecycle state a command puts the peripheral in when the firmware
\* accepts it (transport result 0 and status word 0); the firmware may
\* accept or refuse any command in any state.
pas_state_after(st, cmd, r, w) ==
    IF st = "untracked" \/ r # 0 \/ w # 0 THEN st
    ELSE IF cmd = "PAS_INIT_IMAGE" THEN "MetadataInitialized"
    ELSE IF cmd = "PAS_MEM_SETUP" THEN "MemoryPrepared"
    ELSE IF cmd = "PAS_AUTH_AND_RESET" THEN "Running"
    ELSE "Unloaded"

\* The firmware call of a gated operation. After qcom_scm_probe the
\* convention is resolved, so __get_convention returns the cached value.
GateScmCall(t) ==
    /\ pc[t] = "call"
    /\ op[t] \in GatedOps
    /\ scm_call(t, qcom_scm_convention, FALSE,
                IF op[t] \in PasOps THEN "bw_disable" ELSE "clk_disable")
    /\ IF op[t] \in PasOps
       THEN /\ pas_state' = pas_state_after(pas_state, pas_cmd(op[t]), ret'[t], res0'[t])
            /\ pas_prev' = IF pas_state # "untracked" /\ ret'[t] = 0 /\ res0'[t] = 0
                           THEN pas_state ELSE pas_prev
       ELSE UNCHANGED pas_vars
    /\ UNCHANGED <<gate_ext, neg_vars, gate_vars, op, held_clk, held_bw, qcom_scm_convention, buf_vars>>

\* qcom_scm_bw_disable, called by a PAS operation after its call.
GateBwDisableLock(t) ==
    /\ pc[t] = "bw_disable"
    /\ op[t] \in PasOps
    /\ bw_disable_lock(t, "bw_disable_body", "clk_disable")

GateBwDisableBody(t) ==
    /\ pc[t] = "bw_disable_body"
    /\ op[t] \in PasOps
    /\ bw_disable_body(t, "clk_disable")

\* qcom_scm_clk_disable, then the return (or 'out' in pas_init_image).
GateClkDisable(t) ==
    /\ pc[t] = "clk_disable"
    /\ op[t] \in GatedOps
    /\ clk_count' = clk_disable_counts(clk_count)
    /\ held_clk' = [held_clk EXCEPT ![t] = @ - 1]
    /\ IF op[t] = "pas_init_image"
       THEN /\ pc' = [pc EXCEPT ![t] = "out"]
            /\ UNCHANGED ret
       ELSE /\ pc' = [pc EXCEPT ![t] = "done"]
            /\ ret' = [ret EXCEPT ![t] = facade_return(op[t], ret[t], res0[t])]
    /\ UNCHANGED <<ext_vars, neg_vars, path, scm_vote_count, scm_bw_lock, icc_bw, op, held_bw,
                   call_vars, buf_vars>>

\* qcom_scm_pas_init_image, label 'out': free the metadata buffer, or hand
\* it to the context.
PasOut(t) ==
    /\ pc[t] = "out"
    /\ op[t] = "pas_init_image"
    /\ IF ret[t] < 0 \/ ~use_ctx[t]
       THEN /\ buf' = [buf EXCEPT ![t][1].st = "freed"]
            /\ bufs_live' = bufs_live - 1
            /\ UNCHANGED ctx_ptr
       ELSE /\ buf' = [buf EXCEPT ![t][1].st = "owned"]
            /\ ctx_ptr' = [ctx_ptr EXCEPT ![t] = TRUE]
            /\ UNCHANGED bufs_live
    /\ ret' = [ret EXCEPT ![t] = facade_return(op[t], ret[t], res0[t])]
    /\ pc' = [pc EXCEPT ![t] = "done"]
    /\ UNCHANGED <<ext_vars, neg_vars, gate_vars, op, held_clk, held_bw, call_vars, use_ctx,
                   shmbridge, caller_out>>

ctx_after_release_keep(owning) == owning

\* Whether the context still points at a buffer after the release has
\* freed it: ctx->ptr = NULL.
ctx_after_release(owning) == FALSE

\* The buffer a context points at: the one a successful
\* qcom_scm_pas_init_image recorded, or none.
ctx_buf(owning) ==
    IF owning THEN [NoBuf EXCEPT !.st = "owned", !.content = "data", !.role = "in"]
    ELSE NoBuf

\* A thread calls qcom_scm_pas_metadata_release on its own context.
CallPasRelease(t) ==
    /\ pc[t] = "idle"
    /\ op' = [op EXCEPT ![t] = "pas_metadata_release"]
    /\ pc' = [pc EXCEPT ![t] = "release"]
    /\ buf' = [buf EXCEPT ![t][1] = ctx_buf(ctx_ptr[t])]
    /\ UNCHANGED <<ext_vars, neg_vars, gate_vars, ret, held_clk, held_bw, call_vars,
                   use_ctx, ctx_ptr, bufs_live, shmbridge, caller_out>>

\* qcom_scm_pas_metadata_release: nothing when ctx->ptr is NULL, else
\* dma_free_coherent and the context is cleared.
PasMetadataRelease(t) ==
    /\ pc[t] = "release"
    /\ op[t] = "pas_metadata_release"
    /\ IF ctx_ptr[t]
       THEN /\ buf' = [buf EXCEPT ![t][1].st = "freed"]
            /\ bufs_live' = bufs_live - 1
            /\ ctx_ptr' = [ctx_ptr EXCEPT ![t] = ctx_after_release(ctx_ptr[t])]
       ELSE UNCHANGED <<buf, bufs_live, ctx_ptr>>
    /\ pc' = [pc EXCEPT ![t] = "done"]
    /\ UNCHANGED <<ext_vars, neg_vars, gate_vars, op, ret, held_clk, held_bw, call_vars,
                   use_ctx, shmbridge, caller_out>>

\* qcom_scm_pas_metadata_release has returned.
PasReleaseReturn(t) ==
    /\ pc[t] = "done"
    /\ op[t] = "pas_metadata_release"
    /\ pc' = [pc EXCEPT ![t] = "idle"]
    /\ op' = [op EXCEPT ![t] = "none"]
    /\ buf' = [buf EXCEPT ![t] = [i \in 1..2 |-> NoBuf]]
    /\ UNCHANGED <<ext_vars, neg_vars, gate_vars, ret, held_clk, held_bw, call_vars,
                   use_ctx, ctx_ptr, bufs_live, shmbridge, caller_out>>

\* The operation has returned to its caller; the thread is free again.
GateReturn(t) ==
    /\ pc[t] = "done"
    /\ op[t] \in GatedOps
    /\ pc' = [pc EXCEPT ![t] = "idle"]
    /\ op' = [op EXCEPT ![t] = "none"]
    /\ ret' = [ret EXCEPT ![t] = 0]
    /\ res0' = [res0 EXCEPT ![t] = 0]
    /\ invoked' = [invoked EXCEPT ![t] = "none"]
    /\ held_bw' = [held_bw EXCEPT ![t] = 0]
    /\ held_clk' = [held_clk EXCEPT ![t] = 0]
    /\ buf' = [buf EXCEPT ![t] = [i \in 1..2 |-> NoBuf]]
    /\ use_ctx' = [use_ctx EXCEPT ![t] = FALSE]
    /\ caller_out' = [caller_out EXCEPT ![t] = FALSE]
    /\ UNCHANGED <<ext_vars, neg_vars, gate_vars, qcom_scm_convention, ctx_ptr, bufs_live, shmbridge>>

InitGated ==
    InitGate /\ InitThreads /\ InitCall /\ InitBuf /\ InitResolved /\ InitNoBridge

NextGated ==
    \E t \in FacadeThreads :
        \/ CallPasInitImage(t)
        \/ CallGated(t)
        \/ CallHdcpReq(t)
        \/ PasAlloc(t)
        \/ GateClkEnable(t)
        \/ GateBwEnableLock(t)
        \/ GateBwEnableBody(t)
        \/ GateScmCall(t)
        \/ GateBwDisableLock(t)
        \/ GateBwDisableBody(t)
        \/ GateClkDisable(t)
        \/ PasOut(t)
        \/ CallPasRelease(t)
        \/ PasMetadataRelease(t)
        \/ PasReleaseReturn(t)
        \/ GateReturn(t)

SpecGated == InitGated /\ [][NextGated]_vars

(* -------------------- peripheral lifecycle (PAS) ---------------------- *)

\* A thread calls one of the four PAS operations (qcom_scm_pas_init_image
\* without a context).
CallPasOp(t) ==
    /\ pc[t] = "idle"
    /\ GateRoom
    /\ \E o \in PasOps :
         /\ op' = [op EXCEPT ![t] = o]
         /\ pc' = [pc EXCEPT ![t] = IF o = "pas_init_image" THEN "alloc" ELSE "clk_enable"]
    /\ use_ctx' = [use_ctx EXCEPT ![t] = FALSE]
    /\ UNCHANGED <<ext_vars, neg_vars, gate_vars, ret, held_clk, held_bw, call_vars, buf, ctx_ptr,
                   bufs_live, shmbridge, caller_out>>

\* No interconnect path, so that no vote can fail; the peripheral starts
\* Unloaded and its lifecycle is followed.
InitPas ==
    /\ InitGate /\ InitThreadsEarly /\ InitCall /\ InitBuf /\ InitResolved /\ InitNoBridge
    /\ path = "null"
    /\ InitDlIdle /\ InitPtblIdle /\ InitKeyIdle /\ InitTbu /\ InitTailIdle
    /\ pas_state = "Unloaded"
    /\ pas_prev = "Unloaded"

NextPas ==
    \E t \in FacadeThreads :
        \/ CallPasOp(t)
        \/ PasAlloc(t)
        \/ GateClkEnable(t)
        \/ GateBwEnableLock(t)
        \/ GateScmCall(t)
        \/ GateBwDisableLock(t)
        \/ GateClkDisable(t)
        \/ PasOut(t)
        \/ GateReturn(t)

SpecPas == InitPas /\ [][NextPas]_vars

\* The lifecycle state each operation is documented to lead to.
PasTarget(o) ==
    IF o = "pas_init_image" THEN "MetadataInitialized"
    ELSE IF o = "pas_mem_setup" THEN "MemoryPrepared"
    ELSE IF o = "pas_auth_and_reset" THEN "Running"
    ELSE "Unloaded"

\* The edges of Unloaded -> MetadataInitialized -> MemoryPrepared -> Running,
\* and the return to Unloaded from any state.
LifecycleEdges ==
    {<<"Unloaded", "MetadataInitialized">>,
     <<"MetadataInitialized", "MemoryPrepared">>,
     <<"MemoryPrepared", "Running">>,
     <<"MetadataInitialized", "Unloaded">>,
     <<"MemoryPrepared", "Unloaded">>,
     <<"Running", "Unloaded">>}

\* The thread's firmware call of a PAS operation is the step taken.
PasCallStep(t) ==
    /\ pc[t] = "call"
    /\ op[t] \in PasOps
    /\ pc'[t] = "bw_disable"

KeyOps == {"ice_set_key", "derive_sw_secret", "generate_ice_key",
           "prepare_ice_key", "import_ice_key"}

\* The operations that use two transport buffers.
TwoBufOps == {"derive_sw_secret", "prepare_ice_key", "import_ice_key"}

\* The number of transport buffers of a key operation.
key_nbufs(o) == IF o \in TwoBufOps THEN 2 ELSE 1

\* The role of the i-th buffer a key operation allocates: "in" carries the
\* caller's key to the firmware, "out" receives the firmware's answer. The
\* bridged branches of derive_sw_secret and prepare_ice_key allocate the
\* output buffer first; every other branch allocates the input first.
key_buf_role(o, bridged, i) ==
    IF o = "ice_set_key" THEN "in"
    ELSE IF o = "generate_ice_key" THEN "out"
    ELSE IF o = "import_ice_key" THEN (IF i = 1 THEN "in" ELSE "out")
    ELSE IF bridged THEN (IF i = 1 THEN "out" ELSE "in")
    ELSE (IF i = 1 THEN "in" ELSE "out")

\* Whether the rollback of a failed second allocation wipes the first
\* buffer before freeing it: memzero_explicit in the direct branches only.
allocfail_zeroes(bridged) == ~bridged

\* Whether the success path wipes the buffers before 'exit': only the
\* direct branch of qcom_scm_ice_set_key does (memzero_explicit(keybuf)).
post_zeroes(o, bridged) == o = "ice_set_key" /\ ~bridged

\* Whether the 'exit' label wipes each buffer before freeing it: the direct
\* branches of the four operations with an output buffer do; the direct
\* branch of qcom_scm_ice_set_key and all bridged branches only free.
exit_zeroes(o, bridged) == ~bridged /\ o # "ice_set_key"

\* A freshly allocated buffer: dma_alloc_coherent returns zeroed memory, the
\* shared-memory bridge hands out a pool region with whatever it last held.
fresh_buf(o, bridged, i) ==
    [st |-> "live", content |-> IF bridged THEN "stale" ELSE "zero",
     role |-> key_buf_role(o, bridged, i), flushed |-> FALSE, inval |-> FALSE]

\* memcpy of the caller's key into an input buffer, memset(0) of an output
\* buffer; in the bridged branches followed by qtee_shmbridge_flush_shm_buf.
fill_buf(b, bridged) ==
    [b EXCEPT !.content = IF b.role = "in" THEN "key"
                          ELSE IF bridged THEN "zero" ELSE b.content,
              !.flushed = bridged]

\* memzero_explicit on a buffer.
zero_buf(b) == [b EXCEPT !.content = "zero"]

\* dma_free_coherent or qtee_shmbridge_free_shm: the record keeps the
\* content the buffer had when it was released.
free_buf(b) == [b EXCEPT !.st = "freed"]

\* A thread calls one of the key operations.
\* The index of the buffer of the given role ("in" or "out") of a key
\* operation, 0 if it has none.
key_buf_index(o, bridged, role) ==
    IF \E i \in 1..key_nbufs(o) : key_buf_role(o, bridged, i) = role
    THEN CHOOSE i \in 1..key_nbufs(o) : key_buf_role(o, bridged, i) = role
    ELSE 0

\* A successful allocation of buffer i.
alloc_events(i) == <<[e |-> "alloc", i |-> i]>>

bridged_fill_events_flush_first(role, i) == <<[e |-> "flush", i |-> i], [e |-> "write", i |-> i]>>

\* Bridged branches after each allocation: memcpy (input) or memset
\* (output) of the buffer, then qtee_shmbridge_flush_shm_buf.
bridged_fill_events(role, i) == <<[e |-> "write", i |-> i], [e |-> "flush", i |-> i]>>

\* Direct branches after the allocations: memcpy of the caller's key into
\* the input buffer; the output buffer is not written.
direct_copy_events(o) ==
    IF key_buf_index(o, FALSE, "in") = 0 THEN <<>>
    ELSE <<[e |-> "write", i |-> key_buf_index(o, FALSE, "in")]>>

\* The rollback of a failed second allocation.
allocfail_events(bridged) ==
    (IF allocfail_zeroes(bridged) THEN <<[e |-> "zero", i |-> 1]>> ELSE <<>>)
        \o <<[e |-> "free", i |-> 1]>>

key_post_events_copy_first(o, bridged) ==
    LET out == key_buf_index(o, bridged, "out")
        in == key_buf_index(o, bridged, "in")
    IN IF bridged
       THEN (IF out # 0 THEN <<[e |-> "copy_out", i |-> out], [e |-> "inval", i |-> out]>>
             ELSE <<>>)
            \o (IF in # 0 THEN <<[e |-> "inval", i |-> in]>> ELSE <<>>)
       ELSE IF o = "ice_set_key" THEN <<[e |-> "zero", i |-> 1]>>
       ELSE <<[e |-> "copy_out", i |-> out]>>

\* The success path after the call. Bridged: qtee_shmbridge_inv_shm_buf of
\* the output buffer, memcpy of it to the caller, then the invalidate of the
\* input buffer. Direct: the memcpy to the caller (qcom_scm_ice_set_key:
\* memzero_explicit of the key buffer).
key_post_events(o, bridged) ==
    LET out == key_buf_index(o, bridged, "out")
        in == key_buf_index(o, bridged, "in")
    IN IF bridged
       THEN (IF out # 0 THEN <<[e |-> "inval", i |-> out], [e |-> "copy_out", i |-> out]>>
             ELSE <<>>)
            \o (IF in # 0 THEN <<[e |-> "inval", i |-> in]>> ELSE <<>>)
       ELSE IF o = "ice_set_key" THEN <<[e |-> "zero", i |-> 1]>>
       ELSE <<[e |-> "copy_out", i |-> out]>>

\* Label 'exit': the bridged branches free the buffers in the order they
\* were allocated; the direct branches wipe and free the second buffer,
\* then the first (qcom_scm_ice_set_key only frees its buffer).
key_exit_events(o, bridged) ==
    LET one(i) == (IF exit_zeroes(o, bridged) THEN <<[e |-> "zero", i |-> i]>> ELSE <<>>)
                      \o <<[e |-> "free", i |-> i]>>
    IN IF key_nbufs(o) = 1 THEN one(1)
       ELSE IF bridged THEN one(1) \o one(2)
       ELSE one(2) \o one(1)

CallKeyOp(t) ==
    /\ pc[t] = "idle"
    /\ \E o \in KeyOps : op' = [op EXCEPT ![t] = o]
    /\ pc' = [pc EXCEPT ![t] = "k_alloc1"]
    /\ buf_log' = [buf_log EXCEPT ![t] = <<>>]
    /\ UNCHANGED <<key_ext, neg_vars, gate_vars, ret, held_clk, held_bw, call_vars, buf_vars>>

\* The first allocation; on failure the operation returns -ENOMEM.
KeyAlloc1(t) ==
    /\ pc[t] = "k_alloc1"
    /\ op[t] \in KeyOps
    /\ \E ok \in BOOLEAN :
         IF ok
         THEN /\ buf' = [buf EXCEPT ![t][1] = fresh_buf(op[t], shmbridge, 1)]
              /\ bufs_live' = bufs_live + 1
              /\ pc' = [pc EXCEPT ![t] =
                          IF shmbridge THEN "k_fill1"
                          ELSE IF key_nbufs(op[t]) = 2 THEN "k_alloc2"
                          ELSE "k_copy"]
              /\ UNCHANGED ret
         ELSE /\ ret' = [ret EXCEPT ![t] = -ENOMEM]
              /\ pc' = [pc EXCEPT ![t] = "done"]
              /\ UNCHANGED <<buf, bufs_live>>
    /\ buf_log' = [buf_log EXCEPT ![t] = IF pc'[t] = "done" THEN @ ELSE @ \o alloc_events(1)]
    /\ UNCHANGED <<key_ext, neg_vars, gate_vars, op, held_clk, held_bw, call_vars, use_ctx, ctx_ptr,
                   shmbridge, caller_out>>

\* Bridged branch: memcpy or memset of the first buffer, then its flush.
KeyFill1(t) ==
    /\ pc[t] = "k_fill1"
    /\ op[t] \in KeyOps
    /\ buf' = [buf EXCEPT ![t][1] = fill_buf(@, TRUE)]
    /\ pc' = [pc EXCEPT ![t] = IF key_nbufs(op[t]) = 2 THEN "k_alloc2" ELSE "k_call"]
    /\ buf_log' = [buf_log EXCEPT ![t] = @ \o bridged_fill_events(buf[t][1].role, 1)]
    /\ UNCHANGED <<key_ext, neg_vars, gate_vars, op, ret, held_clk, held_bw, call_vars, use_ctx, ctx_ptr,
                   bufs_live, shmbridge, caller_out>>

\* The first buffer as the rollback of a failed second allocation leaves it.
allocfail_buf(b, bridged) ==
    free_buf(IF allocfail_zeroes(bridged) THEN zero_buf(b) ELSE b)

\* The second allocation; on failure the first buffer is released and the
\* operation returns -ENOMEM.
KeyAlloc2(t) ==
    /\ pc[t] = "k_alloc2"
    /\ op[t] \in TwoBufOps
    /\ \E ok \in BOOLEAN :
         IF ok
         THEN /\ buf' = [buf EXCEPT ![t][2] = fresh_buf(op[t], shmbridge, 2)]
              /\ bufs_live' = bufs_live + 1
              /\ pc' = [pc EXCEPT ![t] = IF shmbridge THEN "k_fill2" ELSE "k_copy"]
              /\ UNCHANGED ret
         ELSE /\ buf' = [buf EXCEPT ![t][1] = allocfail_buf(@, shmbridge)]
              /\ bufs_live' = bufs_live - 1
              /\ ret' = [ret EXCEPT ![t] = -ENOMEM]
              /\ pc' = [pc EXCEPT ![t] = "done"]
    /\ buf_log' = [buf_log EXCEPT ![t] = IF pc'[t] = "done" THEN @ \o allocfail_events(shmbridge)
                                        ELSE @ \o alloc_events(2)]
    /\ UNCHANGED <<key_ext, neg_vars, gate_vars, op, held_clk, held_bw, call_vars, use_ctx, ctx_ptr,
                   shmbridge, caller_out>>

\* Bridged branch: memcpy or memset of the second buffer, then its flush.
KeyFill2(t) ==
    /\ pc[t] = "k_fill2"
    /\ op[t] \in TwoBufOps
    /\ buf' = [buf EXCEPT ![t][2] = fill_buf(@, TRUE)]
    /\ pc' = [pc EXCEPT ![t] = "k_call"]
    /\ buf_log' = [buf_log EXCEPT ![t] = @ \o bridged_fill_events(buf[t][2].role, 2)]
    /\ UNCHANGED <<key_ext, neg_vars, gate_vars, op, ret, held_clk, held_bw, call_vars, use_ctx, ctx_ptr,
                   bufs_live, shmbridge, caller_out>>

\* Direct branch: memcpy of the caller's key into the input buffer, after
\* every allocation (qcom_scm_generate_ice_key has no input to copy).
KeyCopy(t) ==
    /\ pc[t] = "k_copy"
    /\ op[t] \in KeyOps
    /\ buf' = [buf EXCEPT ![t] =
                 [i \in 1..2 |-> IF @[i].st = "live" THEN fill_buf(@[i], FALSE)
                                 ELSE @[i]]]
    /\ pc' = [pc EXCEPT ![t] = "k_call"]
    /\ buf_log' = [buf_log EXCEPT ![t] = @ \o direct_copy_events(op[t])]
    /\ UNCHANGED <<key_ext, neg_vars, gate_vars, op, ret, held_clk, held_bw, call_vars, use_ctx, ctx_ptr,
                   bufs_live, shmbridge, caller_out>>

\* What the firmware call leaves in a buffer: on success the output buffer
\* holds the answer (key material); on failure it may or may not have been
\* written ('wrote'). An input buffer keeps the caller's key.
after_call_buf(b, r, wrote) ==
    IF b.st = "live" /\ b.role = "out" /\ (r = 0 \/ wrote)
    THEN [b EXCEPT !.content = "key"]
    ELSE b

\* qcom_scm_call of a key operation; a failure jumps to 'exit'.
KeyScmCall(t) ==
    /\ pc[t] = "k_call"
    /\ op[t] \in KeyOps
    /\ scm_call(t, qcom_scm_convention, FALSE, "k_after")
    /\ \E wrote \in BOOLEAN :
         buf' = [buf EXCEPT ![t] =
                   [i \in 1..2 |-> after_call_buf(@[i], ret'[t], wrote)]]
    /\ buf_log' = [buf_log EXCEPT ![t] = Append(@, [e |-> "call", i |-> 0])]
    /\ UNCHANGED <<key_ext, neg_vars, gate_vars, op, held_clk, held_bw, qcom_scm_convention, use_ctx,
                   ctx_ptr, bufs_live, shmbridge, caller_out>>

\* A buffer after the success path: the bridged branches invalidate it, the
\* direct branch of qcom_scm_ice_set_key wipes it.
post_buf(b, o, bridged) ==
    IF b.st # "live" THEN b
    ELSE IF bridged THEN [b EXCEPT !.inval = TRUE]
    ELSE IF post_zeroes(o, bridged) THEN zero_buf(b)
    ELSE b

key_copies_out_always(o, r) == o # "ice_set_key"

\* Whether the caller's output buffer is written after the call: 'if (ret)
\* goto exit' skips the memcpy; qcom_scm_ice_set_key has no output.
key_copies_out(o, r) == r = 0 /\ o # "ice_set_key"

\* The success path between the call and 'exit': invalidate, copy the
\* output to the caller. A failed call skips it ('goto exit').
KeyPost(t) ==
    /\ pc[t] = "k_after"
    /\ op[t] \in KeyOps
    /\ IF ret[t] = 0
       THEN /\ buf' = [buf EXCEPT ![t] =
                         [i \in 1..2 |-> post_buf(@[i], op[t], shmbridge)]]
       ELSE UNCHANGED buf
    /\ caller_out' = [caller_out EXCEPT ![t] = key_copies_out(op[t], ret[t])]
    /\ pc' = [pc EXCEPT ![t] = "k_exit"]
    /\ buf_log' = [buf_log EXCEPT ![t] = IF ret[t] = 0 THEN @ \o key_post_events(op[t], shmbridge) ELSE @]
    /\ UNCHANGED <<key_ext, neg_vars, gate_vars, op, ret, held_clk, held_bw, call_vars, use_ctx, ctx_ptr,
                   bufs_live, shmbridge>>

\* A buffer as the 'exit' label leaves it.
exit_buf(b, o, bridged) ==
    IF b.st # "live" THEN b
    ELSE free_buf(IF exit_zeroes(o, bridged) THEN zero_buf(b) ELSE b)

\* Label 'exit': release every buffer, return ret.
KeyExit(t) ==
    /\ pc[t] = "k_exit"
    /\ op[t] \in KeyOps
    /\ buf' = [buf EXCEPT ![t] = [i \in 1..2 |-> exit_buf(@[i], op[t], shmbridge)]]
    /\ bufs_live' = bufs_live - Cardinality({i \in 1..2 : buf[t][i].st = "live"})
    /\ pc' = [pc EXCEPT ![t] = "done"]
    /\ buf_log' = [buf_log EXCEPT ![t] = @ \o key_exit_events(op[t], shmbridge)]
    /\ UNCHANGED <<key_ext, neg_vars, gate_vars, op, ret, held_clk, held_bw, call_vars, use_ctx, ctx_ptr,
                   shmbridge, caller_out>>

\* The operation has returned to its caller; the thread is free again.
KeyReturn(t) ==
    /\ pc[t] = "done"
    /\ op[t] \in KeyOps
    /\ pc' = [pc EXCEPT ![t] = "idle"]
    /\ op' = [op EXCEPT ![t] = "none"]
    /\ ret' = [ret EXCEPT ![t] = 0]
    /\ res0' = [res0 EXCEPT ![t] = 0]
    /\ invoked' = [invoked EXCEPT ![t] = "none"]
    /\ buf' = [buf EXCEPT ![t] = [i \in 1..2 |-> NoBuf]]
    /\ caller_out' = [caller_out EXCEPT ![t] = FALSE]
    /\ buf_log' = [buf_log EXCEPT ![t] = <<>>]
    /\ UNCHANGED <<key_ext, neg_vars, gate_vars, held_clk, held_bw, qcom_scm_convention, use_ctx,
                   ctx_ptr, bufs_live, shmbridge>>

\* The backend is fixed at startup: direct or bridged.
InitKey ==
    /\ InitGate /\ InitThreads /\ InitCall /\ InitBuf /\ InitResolved
    /\ shmbridge \in BOOLEAN

NextKey ==
    \E t \in FacadeThreads :
        \/ CallKeyOp(t)
        \/ KeyAlloc1(t)
        \/ KeyFill1(t)
        \/ KeyAlloc2(t)
        \/ KeyFill2(t)
        \/ KeyCopy(t)
        \/ KeyScmCall(t)
        \/ KeyPost(t)
        \/ KeyExit(t)
        \/ KeyReturn(t)

SpecKey == InitKey /\ [][NextKey]_vars

(* ------------------ metadata context: init, release ------------------- *)

\* A thread calls qcom_scm_pas_init_image with a context that holds no
\* buffer, or with none.
CallPasInitFresh(t) ==
    /\ pc[t] = "idle"
    /\ op' = [op EXCEPT ![t] = "pas_init_image"]
    /\ pc' = [pc EXCEPT ![t] = "alloc"]
    /\ \E c \in BOOLEAN :
         /\ c => ~ctx_ptr[t]
         /\ use_ctx' = [use_ctx EXCEPT ![t] = c]
    /\ UNCHANGED <<ext_vars, neg_vars, gate_vars, ret, held_clk, held_bw, call_vars, buf,
                   ctx_ptr, bufs_live, shmbridge, caller_out>>

\* No interconnect path: the bandwidth vote is a no-op.
InitMeta ==
    /\ InitGate /\ InitThreads /\ InitCall /\ InitBuf /\ InitResolved /\ InitNoBridge
    /\ path = "null"

NextMeta ==
    \E t \in FacadeThreads :
        \/ CallPasInitFresh(t)
        \/ PasAlloc(t)
        \/ GateClkEnable(t)
        \/ GateBwEnableLock(t)
        \/ GateScmCall(t)
        \/ GateBwDisableLock(t)
        \/ GateClkDisable(t)
        \/ PasOut(t)
        \/ GateReturn(t)
        \/ CallPasRelease(t)
        \/ PasMetadataRelease(t)
        \/ PasReleaseReturn(t)

SpecMeta == InitMeta /\ [][NextMeta]_vars

(* ------------------------ memory reassignment ------------------------- *)

\* The longest destination list tried.
MaxDest == 2

\* Destination vmids tried: small ones, the sign bit of an int, and two
\* above it (43 is QCOM_SCM_VMID_NAV).
VmidSamples == {3, 5, 31, 43}

\* Owner sets tried for *srcvm.
SrcSamples == {{0, 3}, {5}}

\* Destination lists of up to n entries.
DestLists(n) == UNION {[1..k -> VmidSamples] : k \in 0..n}

\* qcom_scm_assign_mem shares nothing between callers: one caller.
AssignThreads == {CHOOSE t \in Threads : TRUE}

\* BIT(v) as it is OR-ed into the int next_vm. BIT(v) is 1UL << v: with a
\* 64-bit long the bits above 31 are lost in the conversion to int; with a
\* 32-bit long a shift by 32 or more is undefined, giving no bit or the bit
\* v mod 32. The result is the set of possible outcomes.
bit_in_int(is64, v) ==
    IF v <= 31 THEN {{v}}
    ELSE IF is64 THEN {{}}
    ELSE {{}, {v % 32}}

\* The u64 an int converts to: sign extension copies bit 31 upwards.
u64_of_int(bits) == IF 31 \in bits THEN bits \cup (32..63) ELSE bits

assign_return_raw(r, w) == IF r # 0 THEN r ELSE w

\* The value qcom_scm_assign_mem returns when the call returned r with
\* first result word w: __qcom_scm_assign_mem gives 'ret ? : res.result[0]',
\* and any non-zero value becomes -EINVAL.
assign_return(r, w) == IF (IF r # 0 THEN r ELSE w) # 0 THEN -EINVAL ELSE 0

\* A caller enters qcom_scm_assign_mem: srcvm_bits = *srcvm.
CallAssignMem(t) ==
    /\ pc[t] = "idle"
    /\ \E s \in SrcSamples, d \in DestLists(MaxDest) :
         /\ srcvm' = [srcvm EXCEPT ![t] = s]
         /\ srcvm_bits' = [srcvm_bits EXCEPT ![t] = s]
         /\ newvm' = [newvm EXCEPT ![t] = d]
    /\ next_vm' = [next_vm EXCEPT ![t] = {}]
    /\ op' = [op EXCEPT ![t] = "assign_mem"]
    /\ pc' = [pc EXCEPT ![t] = "am_alloc"]
    /\ UNCHANGED <<late_vars, clk_vars, icc_vars, wq_vars, gate_vars, ret, held_clk, held_bw, call_vars,
                   buf_vars, neg_vars>>

\* Lines 949-951: dma_alloc_coherent of the descriptor buffer.
AssignAlloc(t) ==
    /\ pc[t] = "am_alloc"
    /\ \E ok \in BOOLEAN :
         IF ok
         THEN /\ buf' = [buf EXCEPT ![t][1] = [NoBuf EXCEPT !.st = "live",
                                               !.content = "data", !.role = "in"]]
              /\ bufs_live' = bufs_live + 1
              /\ pc' = [pc EXCEPT ![t] = "am_fill"]
              /\ UNCHANGED ret
         ELSE /\ ret' = [ret EXCEPT ![t] = -ENOMEM]
              /\ pc' = [pc EXCEPT ![t] = "done"]
              /\ UNCHANGED <<buf, bufs_live>>
    /\ UNCHANGED <<ext_vars, neg_vars, gate_vars, op, held_clk, held_bw, call_vars, use_ctx,
                   ctx_ptr, shmbridge, caller_out>>

\* The values next_vm can have after the loop over the destination
\* entries d (lines 967-973): the OR of BIT(vmid) over the entries.
RECURSIVE next_vm_after(_, _)
next_vm_after(is64, d) ==
    IF d = <<>> THEN {{}}
    ELSE {acc \cup b : acc \in next_vm_after(is64, Tail(d)),
                       b \in bit_in_int(is64, Head(d))}

\* Lines 953-973: the buffer is filled and next_vm computed.
AssignFill(t) ==
    /\ pc[t] = "am_fill"
    /\ \E nv \in next_vm_after(arm64, newvm[t]) :
         next_vm' = [next_vm EXCEPT ![t] = nv]
    /\ pc' = [pc EXCEPT ![t] = "am_call"]
    /\ UNCHANGED <<late_vars, clk_vars, icc_vars, wq_vars, srcvm, srcvm_bits, newvm, gate_vars, op, ret,
                   held_clk, held_bw, call_vars, buf_vars, neg_vars>>

\* Lines 975-976: __qcom_scm_assign_mem, that is qcom_scm_call.
AssignCall(t) ==
    /\ pc[t] = "am_call"
    /\ scm_call(t, qcom_scm_convention, FALSE, "am_after")
    /\ UNCHANGED <<ext_vars, gate_vars, op, held_clk, held_bw, qcom_scm_convention,
                   buf_vars, neg_vars>>

\* Lines 977-987: dma_free_coherent, then -EINVAL, or *srcvm = next_vm and 0.
AssignAfter(t) ==
    /\ pc[t] = "am_after"
    /\ buf' = [buf EXCEPT ![t][1].st = "freed"]
    /\ bufs_live' = bufs_live - 1
    /\ ret' = [ret EXCEPT ![t] = assign_return(ret[t], res0[t])]
    /\ srcvm' = [srcvm EXCEPT ![t] =
                   IF assign_return(ret[t], res0[t]) # 0 THEN @
                   ELSE u64_of_int(next_vm[t])]
    /\ pc' = [pc EXCEPT ![t] = "done"]
    /\ UNCHANGED <<late_vars, clk_vars, icc_vars, wq_vars, srcvm_bits, newvm, next_vm, gate_vars, op,
                   held_clk, held_bw, call_vars, use_ctx, ctx_ptr, shmbridge,
                   caller_out, neg_vars>>

\* qcom_scm_assign_mem has returned.
AssignReturn(t) ==
    /\ pc[t] = "done"
    /\ op[t] = "assign_mem"
    /\ pc' = [pc EXCEPT ![t] = "idle"]
    /\ op' = [op EXCEPT ![t] = "none"]
    /\ ret' = [ret EXCEPT ![t] = 0]
    /\ res0' = [res0 EXCEPT ![t] = 0]
    /\ invoked' = [invoked EXCEPT ![t] = "none"]
    /\ buf' = [buf EXCEPT ![t] = [i \in 1..2 |-> NoBuf]]
    /\ srcvm' = [srcvm EXCEPT ![t] = {}]
    /\ srcvm_bits' = [srcvm_bits EXCEPT ![t] = {}]
    /\ newvm' = [newvm EXCEPT ![t] = <<>>]
    /\ next_vm' = [next_vm EXCEPT ![t] = {}]
    /\ UNCHANGED <<late_vars, clk_vars, icc_vars, wq_vars, gate_vars, held_clk, held_bw, qcom_scm_convention,
                   use_ctx, ctx_ptr, bufs_live, shmbridge, caller_out, neg_vars>>

InitAssign ==
    /\ InitGate /\ InitThreads /\ InitCall /\ InitBuf /\ InitNoBridge
    /\ path = "null"
    /\ qcom_scm_convention \in {"ARM_32", "ARM_64", "LEGACY"}
    /\ arm64 \in BOOLEAN
    /\ qcom_scm_convention = "ARM_64" => arm64
    /\ sc7180 = FALSE
    /\ InitNegLocals
    /\ probe_runs = 1
    /\ published = {qcom_scm_convention}

NextAssign ==
    \E t \in AssignThreads :
        \/ CallAssignMem(t)
        \/ AssignAlloc(t)
        \/ AssignFill(t)
        \/ AssignCall(t)
        \/ AssignAfter(t)
        \/ AssignReturn(t)

SpecAssign == InitAssign /\ [][NextAssign]_vars

(* --------------------------- WaitQueueBridge -------------------------- *)

\* The most completions left unconsumed, and the most queries of one
\* handler run.
MaxWake == 2

QCOM_SMC_WAITQ_FLAG_WAKE_ONE == 1

QCOM_SMC_WAITQ_FLAG_WAKE_ALL == 2

\* Context ids a caller or the firmware may pass.
WqCtxSamples == {0, 1}

\* Flag words the firmware may report: none, wake-one, wake-all, both.
WqFlagSamples == 0..3

complete_flag(d) == 1

\* complete(): one more completion for a waiter to consume.
complete(d) == d + 1

\* wait_for_completion() can return: a completion is there to consume.
completion_ready(d) == d > 0

\* wait_for_completion() returning: it consumed one completion.
completion_consume(d) == d - 1

wq_ctx_any(c) == 0

\* qcom_scm_assert_valid_wq_ctx: only wq_ctx 0 is valid.
qcom_scm_assert_valid_wq_ctx(c) == IF c # 0 THEN -EINVAL ELSE 0

wq_flags_any(f) == TRUE

\* The flags test of the handler: wake-one or wake-all.
wq_flags_valid(f) ==
    f = QCOM_SMC_WAITQ_FLAG_WAKE_ONE \/ f = QCOM_SMC_WAITQ_FLAG_WAKE_ALL

waitq_wakeup_twice(d, c) == complete(complete(d))

\* qcom_scm_waitq_wakeup: the completion count it leaves.
waitq_wakeup(d, c) == IF qcom_scm_assert_valid_wq_ctx(c) # 0 THEN d ELSE complete(d)

WaitOps == {"wait_for_wq_completion"}

\* A thread calls qcom_scm_wait_for_wq_completion(c).
CallWait(t) ==
    /\ pc[t] = "idle"
    /\ \E c \in WqCtxSamples : wq_arg' = [wq_arg EXCEPT ![t] = c]
    /\ op' = [op EXCEPT ![t] = "wait_for_wq_completion"]
    /\ pc' = [pc EXCEPT ![t] = "wq_check"]
    /\ UNCHANGED <<late_vars, clk_vars, icc_vars, mem_vars, waitq_done, irq_pc, irq_ans, irq_queries,
                   irq_wakes, wq_credit, gate_vars, ret, held_clk, held_bw, call_vars,
                   buf_vars, neg_vars>>

\* Lines 1844-1846: the context check.
WqCheck(t) ==
    /\ pc[t] = "wq_check"
    /\ ret' = [ret EXCEPT ![t] = qcom_scm_assert_valid_wq_ctx(wq_arg[t])]
    /\ pc' = [pc EXCEPT ![t] =
                IF qcom_scm_assert_valid_wq_ctx(wq_arg[t]) # 0 THEN "done" ELSE "wq_wait"]
    /\ UNCHANGED <<ext_vars, gate_vars, op, held_clk, held_bw, call_vars, buf_vars,
                   neg_vars>>

\* Line 1848: wait_for_completion returns once a completion is there.
WqWait(t) ==
    /\ pc[t] = "wq_wait"
    /\ completion_ready(waitq_done)
    /\ waitq_done' = completion_consume(waitq_done)
    /\ wq_credit' = wq_credit - 1
    /\ ret' = [ret EXCEPT ![t] = 0]
    /\ pc' = [pc EXCEPT ![t] = "done"]
    /\ UNCHANGED <<late_vars, clk_vars, icc_vars, mem_vars, wq_arg, irq_pc, irq_ans, irq_queries,
                   irq_wakes, gate_vars, op, held_clk, held_bw, call_vars, buf_vars,
                   neg_vars>>

\* qcom_scm_wait_for_wq_completion has returned.
WqReturn(t) ==
    /\ pc[t] = "done"
    /\ op[t] \in WaitOps
    /\ pc' = [pc EXCEPT ![t] = "idle"]
    /\ op' = [op EXCEPT ![t] = "none"]
    /\ ret' = [ret EXCEPT ![t] = 0]
    /\ wq_arg' = [wq_arg EXCEPT ![t] = 0]
    /\ UNCHANGED <<late_vars, clk_vars, icc_vars, mem_vars, waitq_done, irq_pc, irq_ans, irq_queries,
                   irq_wakes, wq_credit, gate_vars, held_clk, held_bw, call_vars,
                   buf_vars, neg_vars>>

\* What scm_get_wq_ctx can hand back to the handler.
WqAnswers ==
    [ret : FwRet, wq_ctx : WqCtxSamples, flags : WqFlagSamples, more : BOOLEAN]

\* The answer lets the handler deliver a completion.
wq_answer_wakes(a) ==
    /\ a.ret = 0
    /\ wq_flags_valid(a.flags)
    /\ qcom_scm_assert_valid_wq_ctx(a.wq_ctx) = 0

\* The interrupt fires: qcom_scm_irq_handler starts, more_pending = 0.
IrqEnter ==
    /\ irq_pc = "idle"
    /\ waitq_done < MaxWake
    /\ irq_pc' = "query"
    /\ irq_queries' = 0
    /\ irq_wakes' = 0
    /\ irq_ans' = [ret |-> 0, wq_ctx |-> 0, flags |-> 0, more |-> FALSE]
    /\ UNCHANGED <<late_vars, clk_vars, icc_vars, mem_vars, waitq_done, wq_arg, wq_credit, gate_vars,
                   thread_vars, call_vars, buf_vars, neg_vars>>

\* Lines 1873-1877: scm_get_wq_ctx, and 'goto out' when it fails. The
\* firmware has finitely many wakes pending.
IrqQuery ==
    /\ irq_pc = "query"
    /\ \E a \in WqAnswers :
         /\ a.more => irq_queries + 1 < MaxWake
         /\ irq_ans' = a
         /\ irq_pc' = IF a.ret # 0 THEN "out" ELSE "flags"
    /\ irq_queries' = irq_queries + 1
    /\ UNCHANGED <<late_vars, clk_vars, icc_vars, mem_vars, waitq_done, wq_arg, irq_wakes, wq_credit,
                   gate_vars, thread_vars, call_vars, buf_vars, neg_vars>>

\* Lines 1879-1883: the flags test.
IrqFlags ==
    /\ irq_pc = "flags"
    /\ irq_pc' = IF wq_flags_valid(irq_ans.flags) THEN "wakeup" ELSE "out"
    /\ UNCHANGED <<late_vars, clk_vars, icc_vars, mem_vars, waitq_done, wq_arg, irq_ans, irq_queries,
                   irq_wakes, wq_credit, gate_vars, thread_vars, call_vars, buf_vars,
                   neg_vars>>

\* Lines 1885-1888: qcom_scm_waitq_wakeup, 'goto out' when it fails, and
\* the loop condition.
IrqWakeup ==
    /\ irq_pc = "wakeup"
    /\ waitq_done' = waitq_wakeup(waitq_done, irq_ans.wq_ctx)
    /\ IF qcom_scm_assert_valid_wq_ctx(irq_ans.wq_ctx) # 0
       THEN /\ irq_pc' = "out"
            /\ UNCHANGED <<irq_wakes, wq_credit>>
       ELSE /\ irq_wakes' = irq_wakes + 1
            /\ wq_credit' = wq_credit + 1
            /\ irq_pc' = IF irq_ans.more THEN "query" ELSE "out"
    /\ UNCHANGED <<late_vars, clk_vars, icc_vars, mem_vars, wq_arg, irq_ans, irq_queries, gate_vars,
                   thread_vars, call_vars, buf_vars, neg_vars>>

\* Label out: return IRQ_HANDLED.
IrqOut ==
    /\ irq_pc = "out"
    /\ irq_pc' = "idle"
    /\ UNCHANGED <<late_vars, clk_vars, icc_vars, mem_vars, waitq_done, wq_arg, irq_ans, irq_queries,
                   irq_wakes, wq_credit, gate_vars, thread_vars, call_vars, buf_vars,
                   neg_vars>>

\* A step of the handler in progress.
IrqStep == IrqQuery \/ IrqFlags \/ IrqWakeup \/ IrqOut

\* After qcom_scm_probe: init_completion (line 1945), the handler
\* registered (line 1952).
InitWq ==
    /\ InitGate /\ InitThreads /\ InitCall /\ InitBuf /\ InitNoBridge
    /\ path = "null"
    /\ InitResolved
    /\ qcom_scm_convention = "ARM_64"

NextWq ==
    \/ \E t \in Threads :
          \/ CallWait(t)
          \/ WqCheck(t)
          \/ WqWait(t)
          \/ WqReturn(t)
    \/ IrqEnter
    \/ IrqQuery
    \/ IrqFlags
    \/ IrqWakeup
    \/ IrqOut

SpecWq == InitWq /\ [][NextWq]_vars

(* ----------------------- ConventionNegotiator ------------------------- *)

Conventions == {"UNKNOWN", "ARM_32", "ARM_64", "LEGACY"}

\* What the firmware can answer to an "is call available" probe: the
\* transport's return value and res.result[0].
ProbeAnswers == {<<0, 1>>, <<0, 0>>, <<0, 2>>, <<-EINVAL, 0>>}

\* Variants of the definitions below, used to show that the properties
\* depend on them.
probe_ok_nonzero(r, w) == r = 0 /\ w # 0

gc_publish_legacy(probed, cur) == "LEGACY"

gc_cached_never(cur) == FALSE

\* The test after each probe: !ret && res.result[0] == 1.
probe_ok(r, w) == r = 0 /\ w = 1

\* The store under scm_query_lock: the probed value replaces the global
\* whenever the two differ.
gc_publish_value(probed, cur) == IF probed # cur THEN probed ELSE cur

\* The early return on line 156: the cached convention is used when it is
\* not SMC_CONVENTION_UNKNOWN.
gc_cached(cur) == cur # "UNKNOWN"

\* Whether a failed 64-bit probe forces ARM_64: the sc7180 compatible.
gc_force(is_sc7180) == is_sc7180

gc_fallback_unknown == "UNKNOWN"

\* The convention adopted when the 32-bit probe fails.
gc_fallback == "LEGACY"

\* A thread calls __get_convention.
CallGetConvention(t) ==
    /\ pc[t] = "idle"
    /\ probe_runs <= NThreads
    /\ op' = [op EXCEPT ![t] = "get_convention"]
    /\ pc' = [pc EXCEPT ![t] = "gc_entry"]
    /\ UNCHANGED <<ext_vars, gate_vars, ret, held_clk, held_bw, call_vars, buf_vars, neg_vars>>

\* Line 156: return the cached convention, or start probing.
GcEntry(t) ==
    /\ pc[t] = "gc_entry"
    /\ IF gc_cached(qcom_scm_convention)
       THEN /\ gc_ret' = [gc_ret EXCEPT ![t] = qcom_scm_convention]
            /\ pc' = [pc EXCEPT ![t] = "done"]
            /\ UNCHANGED probe_runs
       ELSE /\ probe_runs' = probe_runs + 1
            /\ pc' = [pc EXCEPT ![t] = IF arm64 THEN "gc_probe64" ELSE "gc_probe32"]
            /\ UNCHANGED gc_ret
    /\ UNCHANGED <<ext_vars, gate_vars, op, ret, held_clk, held_bw, call_vars, buf_vars,
                   arm64, sc7180, scm_query_lock, probed_convention, forced, p64, p32,
                   published>>

\* Lines 169-184: the 64-bit probe, then the sc7180 workaround.
GcProbe64(t) ==
    /\ pc[t] = "gc_probe64"
    /\ \E a \in ProbeAnswers :
         /\ p64' = [p64 EXCEPT ![t] = [issued |-> TRUE, ret |-> a[1], word |-> a[2]]]
         /\ probed_convention' = [probed_convention EXCEPT ![t] = "ARM_64"]
         /\ IF probe_ok(a[1], a[2])
            THEN /\ pc' = [pc EXCEPT ![t] = "gc_lock"]
                 /\ UNCHANGED forced
            ELSE IF gc_force(sc7180)
            THEN /\ forced' = [forced EXCEPT ![t] = TRUE]
                 /\ pc' = [pc EXCEPT ![t] = "gc_lock"]
            ELSE /\ pc' = [pc EXCEPT ![t] = "gc_probe32"]
                 /\ UNCHANGED forced
    /\ UNCHANGED <<ext_vars, gate_vars, op, ret, held_clk, held_bw, call_vars, buf_vars,
                   arm64, sc7180, scm_query_lock, p32, gc_ret, probe_runs, published>>

\* Lines 187-192: the 32-bit probe, then the legacy fallback.
GcProbe32(t) ==
    /\ pc[t] = "gc_probe32"
    /\ \E a \in ProbeAnswers :
         /\ p32' = [p32 EXCEPT ![t] = [issued |-> TRUE, ret |-> a[1], word |-> a[2]]]
         /\ probed_convention' = [probed_convention EXCEPT ![t] =
                                    IF probe_ok(a[1], a[2]) THEN "ARM_32"
                                    ELSE gc_fallback]
    /\ pc' = [pc EXCEPT ![t] = "gc_lock"]
    /\ UNCHANGED <<ext_vars, gate_vars, op, ret, held_clk, held_bw, call_vars, buf_vars,
                   arm64, sc7180, scm_query_lock, forced, p64, gc_ret, probe_runs,
                   published>>

\* Line 194: spin_lock_irqsave(&scm_query_lock).
GcLock(t) ==
    /\ pc[t] = "gc_lock"
    /\ scm_query_lock = NoThread
    /\ scm_query_lock' = t
    /\ pc' = [pc EXCEPT ![t] = "gc_publish"]
    /\ UNCHANGED <<ext_vars, gate_vars, op, ret, held_clk, held_bw, call_vars, buf_vars,
                   arm64, sc7180, probed_convention, forced, p64, p32, gc_ret,
                   probe_runs, published>>

\* Lines 195-201: the store under the lock, spin_unlock_irqrestore.
GcPublish(t) ==
    /\ pc[t] = "gc_publish"
    /\ scm_query_lock = t
    /\ qcom_scm_convention' = gc_publish_value(probed_convention[t], qcom_scm_convention)
    /\ published' = published \cup {probed_convention[t]}
    /\ scm_query_lock' = NoThread
    /\ pc' = [pc EXCEPT ![t] = "gc_return"]
    /\ UNCHANGED <<ext_vars, gate_vars, op, ret, held_clk, held_bw, res0, invoked, buf_vars,
                   arm64, sc7180, probed_convention, forced, p64, p32, gc_ret,
                   probe_runs>>

\* Line 203: return qcom_scm_convention, read after the unlock.
GcReturn(t) ==
    /\ pc[t] = "gc_return"
    /\ gc_ret' = [gc_ret EXCEPT ![t] = qcom_scm_convention]
    /\ pc' = [pc EXCEPT ![t] = "done"]
    /\ UNCHANGED <<ext_vars, gate_vars, op, ret, held_clk, held_bw, call_vars, buf_vars,
                   arm64, sc7180, scm_query_lock, probed_convention, forced, p64, p32,
                   probe_runs, published>>

\* The caller has the value; the locals of the call are gone.
GcDone(t) ==
    /\ pc[t] = "done"
    /\ op[t] = "get_convention"
    /\ pc' = [pc EXCEPT ![t] = "idle"]
    /\ op' = [op EXCEPT ![t] = "none"]
    /\ probed_convention' = [probed_convention EXCEPT ![t] = "UNKNOWN"]
    /\ forced' = [forced EXCEPT ![t] = FALSE]
    /\ p64' = [p64 EXCEPT ![t] = NoProbe]
    /\ p32' = [p32 EXCEPT ![t] = NoProbe]
    /\ gc_ret' = [gc_ret EXCEPT ![t] = "UNKNOWN"]
    /\ UNCHANGED <<ext_vars, gate_vars, ret, held_clk, held_bw, call_vars, buf_vars,
                   arm64, sc7180, scm_query_lock, probe_runs, published>>

\* Before the first call: the convention is SMC_CONVENTION_UNKNOWN (line
\* 136); the platform is 64-bit or not, an sc7180 or not.
InitConv ==
    /\ InitGate /\ InitThreads /\ InitCall /\ InitBuf /\ InitNoBridge
    /\ path = "null"
    /\ qcom_scm_convention = "UNKNOWN"
    /\ arm64 \in BOOLEAN
    /\ sc7180 \in BOOLEAN
    /\ InitNegLocals
    /\ probe_runs = 0
    /\ published = {}

NextConv ==
    \E t \in Threads :
        \/ CallGetConvention(t)
        \/ GcEntry(t)
        \/ GcProbe64(t)
        \/ GcProbe32(t)
        \/ GcLock(t)
        \/ GcPublish(t)
        \/ GcReturn(t)
        \/ GcDone(t)

SpecConv == InitConv /\ [][NextConv]_vars

\* A step of the call of t in progress.
GcStep(t) ==
    \/ GcEntry(t)
    \/ GcProbe64(t)
    \/ GcProbe32(t)
    \/ GcLock(t)
    \/ GcPublish(t)
    \/ GcReturn(t)

\* The position of a call in the straight-line body of __get_convention.
gc_rank(p) ==
    CASE p = "gc_entry" -> 1
      [] p = "gc_probe64" -> 2
      [] p = "gc_probe32" -> 3
      [] p = "gc_lock" -> 4
      [] p = "gc_publish" -> 5
      [] p = "gc_return" -> 6
      [] p = "done" -> 7
      [] OTHER -> 0

GcRunning(t) == gc_rank(pc[t]) \in 1..6

(* --------------------------- CallDispatcher --------------------------- *)

DispatchOps == {"qcom_scm_call", "qcom_scm_call_atomic"}

\* qcom_scm_call or qcom_scm_call_atomic is entered; c is the value its
\* switch is evaluated on.
CallDispatch(t) ==
    /\ pc[t] = "idle"
    /\ \E o \in DispatchOps, c \in Conventions :
         /\ op' = [op EXCEPT ![t] = o]
         /\ gc_ret' = [gc_ret EXCEPT ![t] = c]
    /\ pc' = [pc EXCEPT ![t] = "dispatch"]
    /\ UNCHANGED <<ext_vars, gate_vars, ret, held_clk, held_bw, call_vars, buf_vars,
                   arm64, sc7180, scm_query_lock, probed_convention, forced, p64, p32,
                   probe_runs, published>>

\* Lines 219-228 and 244-253: the switch.
DispatchSwitch(t) ==
    /\ pc[t] = "dispatch"
    /\ scm_call(t, gc_ret[t], op[t] = "qcom_scm_call_atomic", "done")
    /\ UNCHANGED <<ext_vars, gate_vars, op, held_clk, held_bw, qcom_scm_convention, buf_vars,
                   neg_vars>>

DispatchReturn(t) ==
    /\ pc[t] = "done"
    /\ op[t] \in DispatchOps
    /\ pc' = [pc EXCEPT ![t] = "idle"]
    /\ op' = [op EXCEPT ![t] = "none"]
    /\ ret' = [ret EXCEPT ![t] = 0]
    /\ res0' = [res0 EXCEPT ![t] = 0]
    /\ invoked' = [invoked EXCEPT ![t] = "none"]
    /\ gc_ret' = [gc_ret EXCEPT ![t] = "UNKNOWN"]
    /\ UNCHANGED <<ext_vars, gate_vars, held_clk, held_bw, qcom_scm_convention, buf_vars,
                   arm64, sc7180, scm_query_lock, probed_convention, forced, p64, p32,
                   probe_runs, published>>

InitDispatch ==
    /\ InitGate /\ InitThreads /\ InitCall /\ InitBuf /\ InitNoBridge
    /\ path = "null"
    /\ InitResolved

NextDispatch ==
    \E t \in Threads :
        \/ CallDispatch(t)
        \/ DispatchSwitch(t)
        \/ DispatchReturn(t)

SpecDispatch == InitDispatch /\ [][NextDispatch]_vars

(* ------------- paired votes: a disable follows its enable ------------- *)

PairedOps == {"bw_enable", "bw_disable"}

\* A caller enters qcom_scm_bw_enable.
CallPairedEnable(t) ==
    /\ pc[t] = "idle"
    /\ held_bw[t] < MaxVote
    /\ op' = [op EXCEPT ![t] = "bw_enable"]
    /\ pc' = [pc EXCEPT ![t] = "bw_enable"]
    /\ UNCHANGED <<ext_vars, neg_vars, gate_vars, ret, held_clk, held_bw, call_vars, buf_vars>>

\* A caller whose qcom_scm_bw_enable succeeded enters qcom_scm_bw_disable.
CallPairedDisable(t) ==
    /\ pc[t] = "idle"
    /\ held_bw[t] > 0
    /\ op' = [op EXCEPT ![t] = "bw_disable"]
    /\ pc' = [pc EXCEPT ![t] = "bw_disable"]
    /\ UNCHANGED <<ext_vars, neg_vars, gate_vars, ret, held_clk, held_bw, call_vars, buf_vars>>

\* The call has returned; the caller keeps what it holds.
PairedReturn(t) ==
    /\ pc[t] = "done"
    /\ op[t] \in PairedOps
    /\ pc' = [pc EXCEPT ![t] = "idle"]
    /\ op' = [op EXCEPT ![t] = "none"]
    /\ ret' = [ret EXCEPT ![t] = 0]
    /\ UNCHANGED <<ext_vars, neg_vars, gate_vars, held_clk, held_bw, call_vars, buf_vars>>

InitPaired ==
    /\ InitGate /\ InitThreads /\ InitCall /\ InitBuf /\ InitNoBridge
    /\ path = "valid"
    /\ InitResolved
    /\ qcom_scm_convention = "ARM_64"

NextPaired ==
    \E t \in Threads :
        \/ CallPairedEnable(t)
        \/ BwEnableLock(t)
        \/ BwEnableBody(t)
        \/ CallPairedDisable(t)
        \/ BwDisableLock(t)
        \/ BwDisableBody(t)
        \/ PairedReturn(t)

SpecPaired == InitPaired /\ [][NextPaired]_vars

(* ------------------------ ResourceGate: clocks ------------------------ *)

\* clk_prepare_enable(clk) that succeeds: one more enable of the clock.
clk_prepare_enable(cnt, c) == [cnt EXCEPT ![c] = @ + 1]

\* clk_disable_unprepare(clk): one enable of the clock less.
clk_disable_unprepare(cnt, c) == [cnt EXCEPT ![c] = @ - 1]

\* The clock is running while some enable of it is outstanding.
clk_is_enabled(cnt, c) == cnt[c] > 0

clk_enable_fail_label_short(c) ==
    IF c = "core" THEN "ce_bail" ELSE "ce_disable_core"

\* The label qcom_scm_clk_enable jumps to when the enable of c fails.
clk_enable_fail_label(c) ==
    IF c = "core" THEN "ce_bail"
    ELSE IF c = "iface" THEN "ce_disable_core"
    ELSE "ce_disable_iface"

clk_disable_order_short == <<"core", "iface">>

\* The clocks qcom_scm_clk_disable disables, in order.
clk_disable_order == <<"core", "iface", "bus">>

ClkCallOps == {"clk_enable", "clk_disable"}

\* A caller enters qcom_scm_clk_enable.
CallClkEnable(t) ==
    /\ pc[t] = "idle"
    /\ held_clk[t] < MaxVote
    /\ op' = [op EXCEPT ![t] = "clk_enable"]
    /\ pc' = [pc EXCEPT ![t] = "ce_core"]
    /\ UNCHANGED <<ext_vars, gate_vars, ret, held_clk, held_bw, call_vars, buf_vars,
                   neg_vars>>

\* One clk_prepare_enable of qcom_scm_clk_enable: it succeeds and the call
\* goes on to okpc, or it fails and the call jumps to the label for c.
clk_enable_stage(t, c, okpc) ==
    /\ \E ok \in BOOLEAN :
         IF ok
         THEN /\ clk_count' = clk_prepare_enable(clk_count, c)
              /\ clk_log' = [clk_log EXCEPT ![t] = Append(@, <<"enable", c>>)]
              /\ ret' = [ret EXCEPT ![t] = 0]
              /\ pc' = [pc EXCEPT ![t] = okpc]
         ELSE /\ ret' = [ret EXCEPT ![t] = -EINVAL]
              /\ pc' = [pc EXCEPT ![t] = clk_enable_fail_label(c)]
              /\ UNCHANGED <<clk_count, clk_log>>
    /\ UNCHANGED <<icc_vars, more_vars, path, scm_vote_count, scm_bw_lock, icc_bw, op, held_clk, held_bw,
                   call_vars, buf_vars, neg_vars>>

\* Line 71: clk_prepare_enable(__scm->core_clk).
ClkEnableCore(t) ==
    /\ pc[t] = "ce_core"
    /\ clk_enable_stage(t, "core", "ce_iface")

\* Line 75: clk_prepare_enable(__scm->iface_clk).
ClkEnableIface(t) ==
    /\ pc[t] = "ce_iface"
    /\ clk_enable_stage(t, "iface", "ce_bus")

\* Line 79: clk_prepare_enable(__scm->bus_clk).
ClkEnableBus(t) ==
    /\ pc[t] = "ce_bus"
    /\ clk_enable_stage(t, "bus", "ce_return")

\* An undo label of qcom_scm_clk_enable: clk_disable_unprepare(c).
clk_undo(t, c, next) ==
    /\ clk_count' = clk_disable_unprepare(clk_count, c)
    /\ clk_log' = [clk_log EXCEPT ![t] = Append(@, <<"disable", c>>)]
    /\ pc' = [pc EXCEPT ![t] = next]
    /\ UNCHANGED <<icc_vars, more_vars, path, scm_vote_count, scm_bw_lock, icc_bw, op, ret, held_clk,
                   held_bw, call_vars, buf_vars, neg_vars>>

\* Label disable_iface, falling through to disable_core.
ClkUndoIface(t) ==
    /\ pc[t] = "ce_disable_iface"
    /\ clk_undo(t, "iface", "ce_disable_core")

\* Label disable_core, falling through to bail.
ClkUndoCore(t) ==
    /\ pc[t] = "ce_disable_core"
    /\ clk_undo(t, "core", "ce_bail")

\* 'return 0' on line 83 or 'return ret' at bail: the caller holds the
\* clocks after a successful call.
ClkEnableReturn(t) ==
    /\ pc[t] \in {"ce_return", "ce_bail"}
    /\ held_clk' = [held_clk EXCEPT ![t] = IF pc[t] = "ce_return" THEN @ + 1 ELSE @]
    /\ pc' = [pc EXCEPT ![t] = "done"]
    /\ UNCHANGED <<ext_vars, gate_vars, op, ret, held_bw, call_vars, buf_vars, neg_vars>>

\* A caller that holds the clocks enters qcom_scm_clk_disable.
CallClkDisable(t) ==
    /\ pc[t] = "idle"
    /\ held_clk[t] > 0
    /\ op' = [op EXCEPT ![t] = "clk_disable"]
    /\ pc' = [pc EXCEPT ![t] = "cd_step"]
    /\ UNCHANGED <<ext_vars, gate_vars, ret, held_clk, held_bw, call_vars, buf_vars,
                   neg_vars>>

\* Lines 95-97: the next clk_disable_unprepare of qcom_scm_clk_disable;
\* after the last one the call returns and the caller's hold is gone.
ClkDisableStep(t) ==
    /\ pc[t] = "cd_step"
    /\ LET i == Len(clk_log[t]) + 1
           last == i >= Len(clk_disable_order)
       IN  /\ clk_count' = clk_disable_unprepare(clk_count, clk_disable_order[i])
           /\ clk_log' = [clk_log EXCEPT ![t] =
                            Append(@, <<"disable", clk_disable_order[i]>>)]
           /\ pc' = [pc EXCEPT ![t] = IF last THEN "done" ELSE "cd_step"]
           /\ held_clk' = [held_clk EXCEPT ![t] = IF last THEN @ - 1 ELSE @]
    /\ UNCHANGED <<icc_vars, more_vars, path, scm_vote_count, scm_bw_lock, icc_bw, op, ret, held_bw,
                   call_vars, buf_vars, neg_vars>>

\* The caller goes on.
ClkReturn(t) ==
    /\ pc[t] = "done"
    /\ op[t] \in ClkCallOps
    /\ pc' = [pc EXCEPT ![t] = "idle"]
    /\ op' = [op EXCEPT ![t] = "none"]
    /\ ret' = [ret EXCEPT ![t] = 0]
    /\ clk_log' = [clk_log EXCEPT ![t] = <<>>]
    /\ UNCHANGED <<icc_vars, more_vars, gate_vars, held_clk, held_bw, call_vars, buf_vars, neg_vars>>

InitClk ==
    /\ InitGate /\ InitThreads /\ InitCall /\ InitBuf /\ InitNoBridge
    /\ path = "null"
    /\ InitResolved
    /\ qcom_scm_convention = "ARM_64"

NextClk ==
    \E t \in Threads :
        \/ CallClkEnable(t)
        \/ ClkEnableCore(t)
        \/ ClkEnableIface(t)
        \/ ClkEnableBus(t)
        \/ ClkUndoIface(t)
        \/ ClkUndoCore(t)
        \/ ClkEnableReturn(t)
        \/ CallClkDisable(t)
        \/ ClkDisableStep(t)
        \/ ClkReturn(t)

SpecClk == InitClk /\ [][NextClk]_vars

(* ------------------------------ claims -------------------------------- *)

\* C1: with an interconnect path configured, after any sequence of
\* qcom_scm_bw_enable and qcom_scm_bw_disable calls, including a disable
\* issued while the count is zero, scm_vote_count is never negative.
C1_VoteCountNeverNegative == path = "valid" => scm_vote_count >= 0

\* C2: when a gated operation returns, on success or on any failure, every
\* clock enable and every bandwidth vote it acquired has been released.
C2_GatedReturnReleasesAll ==
    \A t \in Threads :
        (pc[t] = "done" /\ op[t] \in GatedOps) =>
            (held_clk[t] = 0 /\ held_bw[t] = 0)

\* C3: in direct mode, every transport buffer of a key operation is all-zero
\* when it is passed to dma_free_coherent, on every exit path.
C3_DirectZeroBeforeFree ==
    \A t \in Threads : \A i \in 1..2 :
        (~shmbridge /\ op[t] \in KeyOps /\ buf[t][i].st = "freed") =>
            buf[t][i].content = "zero"

\* C4: in bridged mode, every transport buffer of a key operation is all-zero
\* when it is released with qtee_shmbridge_free_shm, on every exit path.
C4_BridgedZeroAtFree ==
    \A t \in Threads : \A i \in 1..2 :
        (shmbridge /\ op[t] \in KeyOps /\ buf[t][i].st = "freed") =>
            buf[t][i].content = "zero"

\* C5: in a two-buffer key operation, in either backend, when the second
\* allocation fails the first buffer is zeroed and freed, no firmware call is
\* issued and -ENOMEM is returned.
C5_SecondAllocFailureRollsBack ==
    \A t \in Threads :
        (pc[t] = "done" /\ op[t] \in TwoBufOps
           /\ buf[t][1].st # "none" /\ buf[t][2].st = "none") =>
            /\ buf[t][1].st = "freed"
            /\ buf[t][1].content = "zero"
            /\ invoked[t] = "none"
            /\ ret[t] = -ENOMEM

GcReturned(t) == pc[t] = "done" /\ op[t] = "get_convention"

\* This call of t ran the probe sequence.
GcProbed(t) == p64[t].issued \/ p32[t].issued

C8_TerminatesConcrete ==
    /\ [](\A t \in Threads :
            GcReturned(t) => gc_ret[t] \in {"ARM_32", "ARM_64", "LEGACY"})
    /\ [](\A t \in Threads :
            GcRunning(t) =>
              \/ ENABLED GcStep(t)
              \/ /\ pc[t] = "gc_lock"
                 /\ scm_query_lock \in Threads \ {t}
                 /\ pc[scm_query_lock] = "gc_publish"
                 /\ ENABLED GcStep(scm_query_lock))
    /\ [][\A t \in Threads :
            (GcRunning(t) /\ pc'[t] # pc[t]) => gc_rank(pc'[t]) > gc_rank(pc[t])]_vars

\* Both probes failed and the call returned Legacy.
C8_Witness ==
    \E t \in Threads :
        /\ GcReturned(t)
        /\ p64[t].issued /\ p64[t].ret # 0
        /\ p32[t].issued /\ p32[t].ret # 0
        /\ gc_ret[t] = "LEGACY"

\* C9: a probing call on a 64-bit platform takes Smc64 when the 64-bit probe
\* returns 0 with first word 1; else Smc64, forced, without a 32-bit probe on
\* sc7180; else Smc32 when the 32-bit probe returns 0 with first word 1; else
\* Legacy. Off 64-bit the 64-bit probe is not issued. The value is stored and,
\* when no other value has been stored, returned.
C9_ResolutionRule ==
    \A t \in Threads :
        LET ok64 == p64[t].issued /\ p64[t].ret = 0 /\ p64[t].word = 1
            ok32 == p32[t].issued /\ p32[t].ret = 0 /\ p32[t].word = 1
            rule == IF arm64 /\ (ok64 \/ sc7180) THEN "ARM_64"
                    ELSE IF ok32 THEN "ARM_32" ELSE "LEGACY"
        IN  /\ ~arm64 => ~p64[t].issued
            /\ (pc[t] \in {"gc_lock", "gc_publish", "gc_return"}
                  \/ (GcReturned(t) /\ GcProbed(t))) =>
                 /\ p64[t].issued = arm64
                 /\ p32[t].issued = (~arm64 \/ (~ok64 /\ ~sc7180))
                 /\ forced[t] = (arm64 /\ ~ok64 /\ sc7180)
                 /\ probed_convention[t] = rule
            /\ (pc[t] = "gc_return" /\ published = {probed_convention[t]}) =>
                 qcom_scm_convention = rule
            /\ (GcReturned(t) /\ GcProbed(t) /\ Cardinality(published) = 1) =>
                 gc_ret[t] = rule

\* The sc7180 case: the 64-bit probe failed, Smc64 is forced, no 32-bit probe.
C9_Witness ==
    \E t \in Threads :
        /\ GcReturned(t)
        /\ p64[t].issued /\ p64[t].ret # 0
        /\ forced[t] /\ ~p32[t].issued
        /\ gc_ret[t] = "ARM_64"

\* C10: qcom_scm_call and qcom_scm_call_atomic, when the value they switch on
\* is not Smc32, Smc64 or Legacy, return -EINVAL and invoke no transport.
C10_UnknownConventionFailsFast ==
    \A t \in Threads :
        (pc[t] = "done" /\ op[t] \in DispatchOps
           /\ gc_ret[t] \notin {"ARM_32", "ARM_64", "LEGACY"})
          => (ret[t] = -EINVAL /\ invoked[t] = "none")

C10_Witness ==
    /\ \E t \in Threads : /\ pc[t] = "done" /\ op[t] = "qcom_scm_call"
                          /\ gc_ret[t] = "UNKNOWN"
                          /\ ret[t] = -EINVAL /\ invoked[t] = "none"
    /\ \E t \in Threads : /\ pc[t] = "done" /\ op[t] = "qcom_scm_call_atomic"
                          /\ gc_ret[t] = "UNKNOWN"
                          /\ ret[t] = -EINVAL /\ invoked[t] = "none"

\* The clock operations of a successful qcom_scm_clk_enable.
ClkEnableAll == <<<<"enable", "core">>, <<"enable", "iface">>, <<"enable", "bus">>>>

\* Enables less disables of clock c in a log.
RECURSIVE LogNet(_, _)
LogNet(log, c) ==
    IF log = <<>> THEN 0
    ELSE LogNet(Tail(log), c)
         + (IF Head(log) = <<"enable", c>> THEN 1
            ELSE IF Head(log) = <<"disable", c>> THEN -1 ELSE 0)

\* C11: qcom_scm_clk_enable enables core, iface, bus in that order; a call
\* that fails at iface or bus has disabled every clock it enabled, latest
\* first, before it returns the error, and a failed call leaves no clock
\* enabled by it.
C11_ClkEnableOrderAndRollback ==
    \A t \in Threads :
        /\ op[t] = "clk_enable" =>
             \/ \E n \in 0..3 : clk_log[t] = SubSeq(ClkEnableAll, 1, n)
             \/ ret[t] # 0
        /\ (pc[t] = "done" /\ op[t] = "clk_enable") =>
             IF ret[t] = 0
             THEN clk_log[t] = ClkEnableAll
             ELSE /\ clk_log[t] \in
                       { <<>>,
                         <<<<"enable", "core">>, <<"disable", "core">>>>,
                         <<<<"enable", "core">>, <<"enable", "iface">>,
                           <<"disable", "iface">>, <<"disable", "core">>>> }
                  /\ \A c \in ClockNames : LogNet(clk_log[t], c) = 0

\* The bus stage failed after core and iface were enabled.
C11_Witness ==
    \E t \in Threads :
        /\ pc[t] = "done" /\ op[t] = "clk_enable" /\ ret[t] # 0
        /\ Len(clk_log[t]) = 4
        /\ \A c \in ClockNames : LogNet(clk_log[t], c) = 0

\* Enables of clock c that the call of t in progress has made and not yet
\* handed to, or taken from, its caller.
ClkInFlight(t, c) == IF pc[t] = "done" THEN 0 ELSE LogNet(clk_log[t], c)

ClkInFlightSum(c) == SumOver([t \in Threads |-> ClkInFlight(t, c)], Threads)

\* C12: the enables outstanding on each clock are exactly those of the
\* successful qcom_scm_clk_enable calls not yet matched by a
\* qcom_scm_clk_disable, so after k enables each clock stays enabled through
\* the first k - 1 disables and is disabled once the k-th has run.
C12_ClocksOnFromFirstToLast ==
    \A c \in ClockNames :
        /\ clk_count[c] = SumOver(held_clk, Threads) + ClkInFlightSum(c)
        /\ (\A t \in Threads : pc[t] \in {"idle", "done"}) =>
             (clk_is_enabled(clk_count, c) <=> SumOver(held_clk, Threads) > 0)

\* Two enables, then the first of the two disables: the clocks are still on.
C12_Witness ==
    \E t \in Threads :
        /\ pc[t] = "done" /\ op[t] = "clk_disable" /\ held_clk[t] = 1
        /\ \A u \in Threads \ {t} : pc[u] = "idle" /\ held_clk[u] = 0
        /\ \A c \in ClockNames : clk_is_enabled(clk_count, c) /\ clk_count[c] = 1

\* C13: with a path configured and every disable following its own
\* successful enable, icc_set_bw is called only by an enable at count 0 and
\* a disable at count 1; the maximum request takes effect on exactly the
\* steps that take the count from 0 to 1, the zero request on exactly those
\* that take it from 1 to 0, and any other step leaves the request as it is.
C13_IccOnlyOnEdgeTransitions ==
    [][LET called == icc_tick' # icc_tick
           up == scm_vote_count = 0 /\ scm_vote_count' = 1
           down == scm_vote_count = 1 /\ scm_vote_count' = 0
       IN  /\ scm_vote_count' >= 0
           /\ up => (called /\ icc_bw' = "max")
           /\ down => (called /\ icc_bw' = "zero")
           /\ called => \/ up
                        \/ down
                        \/ /\ scm_vote_count = 0 /\ scm_vote_count' = 0
                           /\ icc_bw' = icc_bw
                           /\ \E t \in Threads : /\ pc[t] = "bw_enable_body"
                                                 /\ pc'[t] = "done"
                                                 /\ ret'[t] < 0
           /\ ~called => icc_bw' = icc_bw
           /\ (scm_vote_count' = 0) <=> (icc_bw' = "zero")]_vars

\* A second enable has gone through without touching the request, which
\* stands at the maximum.
C13_Witness ==
    /\ scm_vote_count = 2
    /\ icc_bw = "max"
    /\ icc_tick = 1
    /\ \E t, u \in Threads : t # u /\ held_bw[t] = 1 /\ held_bw[u] = 1

\* C14: when qcom_scm_pas_init_image returns 0 with a context, the context
\* owns the metadata buffer; when it returns a failure, the buffer it
\* allocated has been freed and the context does not own it.
C14_InitImageBufferOwnership ==
    \A t \in Threads :
        (pc[t] = "done" /\ op[t] = "pas_init_image") =>
            /\ (ret[t] = 0 /\ use_ctx[t]) => buf[t][1].st = "owned"
            /\ (ret[t] # 0 /\ buf[t][1].st # "none") => buf[t][1].st = "freed"

\* C15: qcom_scm_pas_metadata_release on a context that holds no buffer
\* frees nothing and leaves the context as it is; on a context that holds
\* one it frees that buffer and leaves the context holding none, so every
\* buffer is freed once however often the release is repeated.
C15_ReleaseFreesOnce ==
    /\ \A t \in Threads :
         (pc[t] = "done" /\ op[t] = "pas_metadata_release") =>
            /\ ~ctx_ptr[t]
            /\ buf[t][1].st \in {"none", "freed"}
    /\ \A t \in Threads :
         (pc[t] = "release") => ((buf[t][1].st = "owned") <=> ctx_ptr[t])
    /\ LeakedBuf = 0
    /\ bufs_live >= 0

\* A release that found the context empty: nothing was freed and nothing
\* is allocated.
C15_Witness ==
    \E t \in Threads :
        /\ pc[t] = "done" /\ op[t] = "pas_metadata_release"
        /\ buf[t][1].st = "none" /\ ~ctx_ptr[t]
        /\ bufs_live = 0

\* The owner set the destination list d asks for.
DestOwners(d) == {d[i] : i \in 1..Len(d)}

\* C16: after a successful qcom_scm_assign_mem, *srcvm has exactly the bits
\* of the destination vmids, for vmids from 0 to 63.
C16_SrcvmIsOrOfDestBits ==
    \A t \in Threads :
        (pc[t] = "done" /\ op[t] = "assign_mem" /\ ret[t] = 0) =>
            srcvm[t] = DestOwners(newvm[t])

\* C17: when the firmware call of qcom_scm_assign_mem fails (the transport
\* returns an error or the first result word is not 0) the function returns
\* a negative errno and *srcvm keeps its value; *srcvm is written only in
\* the step that returns 0.
C17_SrcvmWrittenOnlyOnSuccess ==
    [][\A t \in Threads :
         /\ (pc[t] = "am_after" /\ pc'[t] = "done") =>
              IF ret[t] # 0 \/ res0[t] # 0
              THEN ret'[t] < 0 /\ srcvm'[t] = srcvm[t] /\ srcvm'[t] = srcvm_bits[t]
              ELSE ret'[t] = 0
         /\ (op[t] = "assign_mem" /\ pc'[t] # "idle" /\ srcvm'[t] # srcvm[t]) =>
              (pc[t] = "am_after" /\ pc'[t] = "done" /\ ret'[t] = 0)
         /\ (op'[t] = "assign_mem" /\ pc'[t] = "done" /\ ret'[t] # 0) =>
              (ret'[t] < 0 /\ srcvm'[t] = srcvm_bits'[t])]_vars

\* The firmware answered with a non-zero status: -EINVAL, *srcvm as before.
C17_Witness ==
    \E t \in Threads :
        /\ pc[t] = "done" /\ op[t] = "assign_mem"
        /\ invoked[t] # "none" /\ res0[t] # 0
        /\ ret[t] = -EINVAL
        /\ srcvm[t] = srcvm_bits[t] /\ srcvm[t] # DestOwners(newvm[t])

\* C18: a qcom_scm_wait_for_wq_completion(0) returns only by consuming one
\* wake that the interrupt path delivered for context 0, so the waits
\* returned never outnumber the wakes delivered, and a wait with no wake
\* left stays blocked.
C18_OneWakeOneWait ==
    /\ wq_credit >= 0
    /\ waitq_done = wq_credit
    /\ \A t \in Threads :
         (pc[t] = "wq_wait" /\ wq_credit = 0) => ~ENABLED WqWait(t)
    /\ \A t \in Threads :
         (pc[t] = "wq_wait" /\ wq_credit > 0) => ENABLED WqWait(t)

\* One wake was delivered; one wait has returned and a second is blocked.
C18_Witness ==
    \E t, u \in Threads :
        /\ t # u
        /\ pc[t] = "done" /\ op[t] \in WaitOps /\ wq_arg[t] = 0 /\ ret[t] = 0
        /\ pc[u] = "wq_wait" /\ ~ENABLED WqWait(u)
        /\ irq_pc = "idle" /\ irq_wakes = 1
        /\ wq_credit = 0

\* The handler's wakeup step delivers a wake for context 0.
WakeDelivered ==
    /\ irq_pc = "wakeup"
    /\ irq_pc' # "wakeup"
    /\ qcom_scm_assert_valid_wq_ctx(irq_ans.wq_ctx) = 0

\* No thread is in wait_for_completion.
NobodyWaits == \A t \in Threads : pc[t] # "wq_wait"

C19_BadCtxFailsFast ==
    /\ [](\A t \in Threads : pc[t] = "wq_check" => ENABLED WqCheck(t))
    /\ [](\A t \in Threads : (pc[t] = "wq_wait" \/ (pc[t] = "done" /\ ret[t] = 0))
                               /\ op[t] \in WaitOps => wq_arg[t] = 0)
    /\ [][\A t \in Threads :
            (pc[t] = "wq_check" /\ pc'[t] # "wq_check" /\ wq_arg[t] # 0) =>
               /\ pc'[t] = "done"
               /\ ret'[t] = -EINVAL
               /\ waitq_done' = waitq_done]_vars

\* A wait on context 1 has failed while a wake of context 0 is pending.
C19_Witness ==
    \E t \in Threads :
        /\ pc[t] = "done" /\ op[t] \in WaitOps
        /\ wq_arg[t] # 0 /\ ret[t] = -EINVAL
        /\ waitq_done > 0

\* The last answer of scm_get_wq_ctx is one the handler delivers a wake for.
IrqLastWakes ==
    /\ irq_ans.ret = 0
    /\ irq_ans.flags \in {QCOM_SMC_WAITQ_FLAG_WAKE_ONE, QCOM_SMC_WAITQ_FLAG_WAKE_ALL}
    /\ irq_ans.wq_ctx = 0

\* C20: in a run of qcom_scm_irq_handler every query that succeeds with
\* wake-one or wake-all flags and context 0 delivers exactly one completion;
\* the handler queries again exactly when that query reported more pending;
\* it stops without a completion on the first failed query, unrecognised
\* flags or non-zero context; and it always moves on to its return.
C20_HandlerLoop ==
    /\ [](irq_pc = "query" =>
            /\ irq_wakes = irq_queries
            /\ irq_queries > 0 => (IrqLastWakes /\ irq_ans.more))
    /\ [](irq_pc \in {"flags", "wakeup"} =>
            /\ irq_wakes = irq_queries - 1
            /\ irq_ans.ret = 0)
    /\ [](irq_pc = "out" =>
            IF IrqLastWakes
            THEN irq_wakes = irq_queries /\ ~irq_ans.more
            ELSE irq_wakes = irq_queries - 1)
    /\ [](irq_pc # "idle" => ENABLED IrqStep)
    /\ [][/\ irq_wakes' # irq_wakes =>
               \/ irq_pc = "idle"
               \/ /\ irq_pc = "wakeup" /\ IrqLastWakes
                  /\ irq_wakes' = irq_wakes + 1
                  /\ waitq_done' = waitq_done + 1
          /\ (waitq_done' > waitq_done) => (irq_pc = "wakeup" /\ IrqLastWakes)
          /\ (irq_pc = "wakeup" /\ irq_pc' # "wakeup") =>
               ((irq_pc' = "query") <=> (IrqLastWakes /\ irq_ans.more))
          /\ irq_pc' = "query" => irq_pc \in {"idle", "wakeup", "query"}]_vars

\* Two queries, the first reporting more pending, each delivered a wake.
C20_Witness ==
    /\ irq_pc = "out"
    /\ irq_queries = 2 /\ irq_wakes = 2
    /\ IrqLastWakes /\ ~irq_ans.more

(* --------------------------- download mode ---------------------------- *)

\* The device tree gives no "qcom,dload-mode" address, or one.
DloadAddrs == {0, 4096}

\* __qcom_scm_is_call_available: false on an unknown convention (no call is
\* made), false when the query fails, otherwise whether result[0] is set.
is_call_available_word(conv, r, w) == r = 0

is_call_available(conv, r, w) ==
    IF conv \notin {"ARM_32", "ARM_64", "LEGACY"} THEN FALSE
    ELSE IF r # 0 THEN FALSE
    ELSE w # 0

\* The value either mechanism carries: enable ? QCOM_SCM_BOOT_SET_DLOAD_MODE : 0.
dload_val(enable) == IF enable THEN "QCOM_SCM_BOOT_SET_DLOAD_MODE" ELSE "zero"

dl_mechanisms_both(avail, addr) ==
    (IF avail THEN <<"scm">> ELSE <<>>) \o (IF addr # 0 THEN <<"io">> ELSE <<>>)

\* qcom_scm_set_download_mode: the if / else if / else. "scm" is
\* __qcom_scm_set_dload_mode, "io" is qcom_scm_io_writel.
dl_mechanisms(avail, addr) ==
    IF avail THEN <<"scm">>
    ELSE IF addr # 0 THEN <<"io">>
    ELSE <<>>

shutdown_enable_param(param) == param

\* qcom_scm_shutdown: the argument of qcom_scm_set_download_mode.
shutdown_enable(param) == FALSE

\* qcom_scm_probe: the argument of qcom_scm_set_download_mode.
probe_enable(param) == param

\* Entry of qcom_scm_set_download_mode(enable): ret = 0.
dl_enter(enable) ==
    /\ dl_pc = "idle"
    /\ dl_pc' = "avail"
    /\ dl_enable' = enable
    /\ dl_avail' = FALSE
    /\ dl_ret' = 0
    /\ dl_used' = <<>>
    /\ dl_err' = FALSE
    /\ UNCHANGED <<download_mode, dload_mode_addr, dl_sent>>

\* qcom_scm_probe, after __get_convention(): the download-mode request.
ProbeDload ==
    /\ boot_pc = "probe"
    /\ boot_pc' = "probe_dl"
    /\ dl_enter(probe_enable(download_mode))
    /\ UNCHANGED not_dl_vars

\* avail = __qcom_scm_is_call_available(...).
DlAvail ==
    /\ dl_pc = "avail"
    /\ \E r \in FwRet, w \in FwWord :
           dl_avail' = is_call_available(qcom_scm_convention, r, w)
    /\ dl_pc' = "mech"
    /\ UNCHANGED <<download_mode, dload_mode_addr, boot_pc, dl_enable, dl_ret, dl_used,
                   dl_err, dl_sent>>
    /\ UNCHANGED not_dl_vars

\* The mechanism chosen: each one used is a qcom_scm_call_atomic whose
\* result becomes ret; with none, the "No available mechanism" error.
DlMech ==
    /\ dl_pc = "mech"
    /\ LET m == dl_mechanisms(dl_avail, dload_mode_addr)
           sent == [i \in 1..Len(m) |-> [mech |-> m[i], val |-> dload_val(dl_enable)]]
       IN /\ dl_used' = dl_used \o sent
          /\ dl_sent' = dl_sent \o [i \in 1..Len(m) |-> dload_val(dl_enable)]
          /\ dl_err' = (m = <<>>)
          /\ IF m = <<>> THEN dl_ret' = dl_ret ELSE dl_ret' \in FwRet
    /\ dl_pc' = "report"
    /\ UNCHANGED <<download_mode, dload_mode_addr, boot_pc, dl_enable, dl_avail>>
    /\ UNCHANGED not_dl_vars

\* "if (ret) dev_err(...)" and the return to qcom_scm_probe or
\* qcom_scm_shutdown.
DlReturn ==
    /\ dl_pc = "report"
    /\ dl_pc' = "idle"
    /\ boot_pc' = IF boot_pc = "probe_dl"
                  THEN (IF download_mode THEN "sdi_dt" ELSE "sdi")
                  ELSE "off"
    /\ UNCHANGED <<download_mode, dload_mode_addr, dl_enable, dl_avail, dl_ret, dl_used,
                   dl_err, dl_sent>>
    /\ UNCHANGED not_dl_vars

\* qcom_scm_probe, download_mode false: qcom_scm_disable_sdi().
ProbeSdi ==
    /\ boot_pc = "sdi"
    /\ boot_pc' = "sdi_dt"
    /\ UNCHANGED <<download_mode, dload_mode_addr, dl_pc, dl_enable, dl_avail, dl_ret,
                   dl_used, dl_err, dl_sent>>
    /\ UNCHANGED not_dl_vars

\* qcom_scm_probe: the "qcom,sdi-enabled" check and return 0.
ProbeDone ==
    /\ boot_pc = "sdi_dt"
    /\ boot_pc' = "up"
    /\ UNCHANGED <<download_mode, dload_mode_addr, dl_pc, dl_enable, dl_avail, dl_ret,
                   dl_used, dl_err, dl_sent>>
    /\ UNCHANGED not_dl_vars

\* qcom_scm_shutdown.
Shutdown ==
    /\ boot_pc = "up"
    /\ boot_pc' = "shutdown_dl"
    /\ dl_enter(shutdown_enable(download_mode))
    /\ UNCHANGED not_dl_vars

\* qcom_scm_probe up to __get_convention(): the convention is resolved, the
\* download-mode address was looked up, download_mode is the module parameter.
InitDload ==
    /\ InitGate /\ InitThreadsEarly /\ InitCall /\ InitBuf /\ InitResolved /\ InitNoBridge
    /\ download_mode \in BOOLEAN
    /\ dload_mode_addr \in DloadAddrs
    /\ boot_pc = "probe"
    /\ dl_pc = "idle"
    /\ dl_enable = FALSE
    /\ dl_avail = FALSE
    /\ dl_ret = 0
    /\ dl_used = <<>>
    /\ dl_err = FALSE
    /\ dl_sent = <<>>
    /\ InitPtblIdle
    /\ InitKeyIdle
    /\ InitTbu
    /\ InitPasUntracked
    /\ InitTailIdle

NextDload ==
    \/ ProbeDload
    \/ DlAvail
    \/ DlMech
    \/ DlReturn
    \/ ProbeSdi
    \/ ProbeDone
    \/ Shutdown

SpecDload == InitDload /\ [][NextDload]_vars

\* C21: an invocation of qcom_scm_set_download_mode uses exactly one
\* mechanism: the firmware call if it is reported available, else one
\* register write if an address is configured, else nothing and the error;
\* never both.
C21_OneMechanism ==
    /\ Len(dl_used) <= 1
    /\ dl_pc \in {"avail", "mech"} => dl_used = <<>> /\ ~dl_err
    /\ dl_pc = "report" =>
         /\ dl_avail => dl_used = <<[mech |-> "scm", val |-> dload_val(dl_enable)]>> /\ ~dl_err
         /\ ~dl_avail /\ dload_mode_addr # 0 =>
                dl_used = <<[mech |-> "io", val |-> dload_val(dl_enable)]>> /\ ~dl_err
         /\ ~dl_avail /\ dload_mode_addr = 0 => dl_used = <<>> /\ dl_err /\ dl_ret = 0

C21_Witness ==
    /\ dl_pc = "report" /\ dl_avail /\ dload_mode_addr # 0
    /\ dl_used = <<[mech |-> "scm", val |-> "QCOM_SCM_BOOT_SET_DLOAD_MODE"]>>

\* C22: qcom_scm_shutdown requests download mode off whatever the module
\* parameter and whatever probe requested: its request is a disarm and
\* whatever it sends is the value 0.
C22_ShutdownDisarms ==
    /\ boot_pc \in {"shutdown_dl", "off"} =>
         /\ dl_enable = FALSE
         /\ \A i \in 1..Len(dl_used) : dl_used[i].val = "zero"
    /\ boot_pc = "off" /\ dl_used # <<>> => dl_sent[Len(dl_sent)] = "zero"

C22_Witness ==
    /\ boot_pc = "off" /\ download_mode
    /\ dl_sent = <<"QCOM_SCM_BOOT_SET_DLOAD_MODE", "zero">>

(* ------------------- secure page table initialisation ------------------ *)

\* What qcom_scm_call can return to qcom_scm_iommu_secure_ptbl_init.
PtblRet == {0, -EPERM, -EINVAL, -ENOMEM}

ptbl_init_return_raw(r) == r

\* qcom_scm_iommu_secure_ptbl_init: "if (ret == -EPERM) ret = 0; return ret".
ptbl_init_return(r) == IF r = -EPERM THEN 0 ELSE r

CallPtblInit(t) ==
    /\ pc[t] = "idle"
    /\ op' = [op EXCEPT ![t] = "iommu_secure_ptbl_init"]
    /\ pc' = [pc EXCEPT ![t] = "ptbl_call"]
    /\ UNCHANGED <<call_rest, ret, invoked, ptbl_res>>

\* ret = qcom_scm_call(__scm->dev, &desc, NULL).
PtblCall(t) ==
    /\ pc[t] = "ptbl_call"
    /\ invoked' = [invoked EXCEPT ![t] = qcom_scm_call_transport(qcom_scm_convention, FALSE)]
    /\ \E r \in PtblRet :
         /\ qcom_scm_call_transport(qcom_scm_convention, FALSE) = "none" => r = -EINVAL
         /\ ret' = [ret EXCEPT ![t] = r]
         /\ ptbl_res' = [ptbl_res EXCEPT ![t] = r]
    /\ pc' = [pc EXCEPT ![t] = "ptbl_fix"]
    /\ UNCHANGED <<call_rest, op>>

\* The -EPERM check and the return.
PtblFix(t) ==
    /\ pc[t] = "ptbl_fix"
    /\ ret' = [ret EXCEPT ![t] = ptbl_init_return(ret[t])]
    /\ pc' = [pc EXCEPT ![t] = "done"]
    /\ UNCHANGED <<call_rest, op, invoked, ptbl_res>>

PtblReturn(t) ==
    /\ pc[t] = "done"
    /\ op[t] = "iommu_secure_ptbl_init"
    /\ pc' = [pc EXCEPT ![t] = "idle"]
    /\ op' = [op EXCEPT ![t] = "none"]
    /\ ret' = [ret EXCEPT ![t] = 0]
    /\ invoked' = [invoked EXCEPT ![t] = "none"]
    /\ ptbl_res' = [ptbl_res EXCEPT ![t] = 0]
    /\ UNCHANGED call_rest

InitPtbl == InitGate /\ InitThreads /\ InitCall /\ InitBuf /\ InitResolved /\ InitNoBridge

NextPtbl ==
    \E t \in Threads :
        \/ CallPtblInit(t)
        \/ PtblCall(t)
        \/ PtblFix(t)
        \/ PtblReturn(t)

SpecPtbl == InitPtbl /\ [][NextPtbl]_vars

\* C23: qcom_scm_iommu_secure_ptbl_init returns 0 when the call yields
\* -EPERM and every other result of the call unchanged.
C23_EpermIsSuccess ==
    \A t \in Threads :
        pc[t] = "done" /\ op[t] = "iommu_secure_ptbl_init" =>
            /\ ptbl_res[t] = -EPERM => ret[t] = 0
            /\ ptbl_res[t] # -EPERM => ret[t] = ptbl_res[t]

C23_Witness ==
    \E t, u \in Threads :
        /\ pc[t] = "done" /\ op[t] = "iommu_secure_ptbl_init"
        /\ ptbl_res[t] = -EPERM /\ ret[t] = 0
        /\ pc[u] = "done" /\ op[u] = "iommu_secure_ptbl_init"
        /\ ptbl_res[u] = -ENOMEM /\ ret[u] = -ENOMEM

(* ------------------ key operations: order of the steps ----------------- *)

\* The positions of the log of thread t that hold event e on buffer i.
LogAt(t, e, i) == {k \in 1..Len(buf_log[t]) : buf_log[t][k] = [e |-> e, i |-> i]}

\* The position of the firmware call in the log of thread t, 0 before it.
CallAt(t) == IF LogAt(t, "call", 0) = {} THEN 0 ELSE CHOOSE k \in LogAt(t, "call", 0) : TRUE

\* C24: in a two-buffer key operation, in both backends, no buffer is
\* written or flushed before both buffers are allocated.
C24_AllocateAllBeforeMarshal ==
    \A t \in Threads :
        op[t] \in TwoBufOps =>
            \A k \in 1..Len(buf_log[t]) :
                buf_log[t][k].e \in {"write", "flush"} =>
                    \E j \in LogAt(t, "alloc", 2) : j < k

\* C25: in bridged mode every buffer handed to the firmware was flushed
\* after the last CPU write to it and before the call, and an output buffer
\* is invalidated after the call and before it is copied to the caller.
C25_FlushBeforeInvalidateAfter ==
    \A t \in Threads :
        shmbridge /\ op[t] \in KeyOps =>
            /\ CallAt(t) # 0 =>
                 \A i \in 1..key_nbufs(op[t]) :
                     /\ \E f \in LogAt(t, "flush", i) : f < CallAt(t)
                     /\ \A w \in LogAt(t, "write", i) :
                            \E f \in LogAt(t, "flush", i) : w < f /\ f < CallAt(t)
            /\ \A i \in 1..2 : \A c \in LogAt(t, "copy_out", i) :
                   /\ CallAt(t) # 0 /\ CallAt(t) < c
                   /\ key_buf_role(op[t], TRUE, i) = "out"
                   /\ \E v \in LogAt(t, "inval", i) : CallAt(t) < v /\ v < c
            /\ pc[t] = "done" /\ ret[t] = 0 /\ op[t] # "ice_set_key" =>
                   LogAt(t, "copy_out", key_buf_index(op[t], TRUE, "out")) # {}

C25_Witness ==
    \E t \in Threads :
        /\ shmbridge /\ op[t] = "prepare_ice_key" /\ pc[t] = "done" /\ ret[t] = 0
        /\ LogAt(t, "copy_out", 1) # {} /\ LogAt(t, "flush", 2) # {}

\* C26: when a buffer-using operation has returned, every transport buffer
\* it allocated has been freed; the only buffers alive between calls are the
\* metadata buffers a caller's context owns.
C26_NoBufferOutlivesItsCall ==
    /\ \A t \in Threads :
         pc[t] = "done" /\ ~(op[t] = "pas_init_image" /\ use_ctx[t]) =>
             \A i \in 1..2 : buf[t][i].st \in {"none", "freed"}
    /\ (\A t \in Threads : pc[t] = "idle") =>
           bufs_live = Cardinality({t \in Threads : ctx_ptr[t]})

(* ------------- arm-smmu-qcom-tbu.c: address translation --------------- *)

ETIMEDOUT == 110

\* A translated physical address (0 stands for "no translation").
PhysAddrs == {4096}

atos_lock_per_tbu(u) == u

\* The lock qsmmuv500_iova_to_phys takes around the trigger loop:
\* spin_lock_irqsave(&atos_lock, flags), the one file-scope spinlock,
\* whatever the TBU.
atos_lock_id(u) == 0

\* qsmmuv500_tbu_halt: the count it leaves (acked: the halt acknowledgement
\* arrived before the timeout).
halt_count_after_halt(c, acked) ==
    IF c # 0 THEN c + 1
    ELSE IF acked THEN 1
    ELSE 0

halt_req_after_halt_kept(c, req, acked) == IF c # 0 THEN req ELSE TRUE

\* qsmmuv500_tbu_halt: the halt request it leaves in DEBUG_SID_HALT_REG.
halt_req_after_halt(c, req, acked) ==
    IF c # 0 THEN req
    ELSE acked

\* qsmmuv500_tbu_halt: its return value.
halt_return(c, acked) == IF c = 0 /\ ~acked THEN -ETIMEDOUT ELSE 0

halt_count_after_resume_unchecked(c) == c - 1

\* qsmmuv500_tbu_resume: the count and the halt request it leaves.
halt_count_after_resume(c) == IF c = 0 THEN 0 ELSE c - 1

halt_req_after_resume(c, req) == IF c = 1 THEN FALSE ELSE req

atos_retry_once_more(phys, attempt) == phys = 0 /\ attempt < 3

\* "while (!phys && attempt++ < 2)": whether the loop runs again after an
\* iteration that gave phys, with 'attempt' counting the earlier retries.
atos_retry(phys, attempt) == phys = 0 /\ attempt < 2

\* Entry, with qsmmuv500_find_tbu: no TBU for the sid returns 0.
CallIovaToPhys(t) ==
    /\ a_pc[t] = "idle"
    /\ \E u \in {0} \cup TBUs :
         /\ a_tbu' = [a_tbu EXCEPT ![t] = u]
         /\ a_cb' = [a_cb EXCEPT ![t] = t]
         /\ a_pc' = [a_pc EXCEPT ![t] = IF u = 0 THEN "done" ELSE "icc"]
    /\ a_out' = [a_out EXCEPT ![t] = 0]
    /\ UNCHANGED <<tbu_vars, a_sctlr_orig, a_tries, a_phys>>
    /\ UNCHANGED not_atos_vars

\* ret = icc_set_bw(tbu->path, 0, UINT_MAX); if (ret) return ret.
AtosIcc(t) ==
    /\ a_pc[t] = "icc"
    /\ \E ok \in BOOLEAN :
         IF ok
         THEN /\ tbu_bw' = [tbu_bw EXCEPT ![a_tbu[t]] = "max"]
              /\ a_pc' = [a_pc EXCEPT ![t] = "clk"]
              /\ UNCHANGED a_out
         ELSE /\ a_out' = [a_out EXCEPT ![t] = -EINVAL]
              /\ a_pc' = [a_pc EXCEPT ![t] = "done"]
              /\ UNCHANGED tbu_bw
    /\ UNCHANGED <<atos_lock, halt_count, halt_req, tbu_clk, sctlr, a_tbu, a_cb,
                   a_sctlr_orig, a_tries, a_phys>>
    /\ UNCHANGED not_atos_vars

\* ret = clk_prepare_enable(tbu->clk); if (ret) goto disable_icc.
AtosClk(t) ==
    /\ a_pc[t] = "clk"
    /\ \E ok \in BOOLEAN :
         IF ok
         THEN /\ tbu_clk' = [tbu_clk EXCEPT ![a_tbu[t]] = @ + 1]
              /\ a_pc' = [a_pc EXCEPT ![t] = "halt"]
         ELSE /\ a_pc' = [a_pc EXCEPT ![t] = "disable_icc"]
              /\ UNCHANGED tbu_clk
    /\ UNCHANGED <<atos_lock, halt_count, halt_req, tbu_bw, sctlr, a_tbu, a_cb,
                   a_sctlr_orig, a_tries, a_phys, a_out>>
    /\ UNCHANGED not_atos_vars

\* ret = qsmmuv500_tbu_halt(tbu, smmu_domain); if (ret) goto disable_clk.
\* The body runs under tbu->halt_lock with interrupts off; the fault
\* handling inside it writes SCTLR and writes the value it read back.
AtosHalt(t) ==
    /\ a_pc[t] = "halt"
    /\ \E acked \in BOOLEAN :
         LET u == a_tbu[t] IN
         /\ halt_count' = [halt_count EXCEPT ![u] = halt_count_after_halt(@, acked)]
         /\ halt_req' = [halt_req EXCEPT ![u] =
                           halt_req_after_halt(halt_count[u], @, acked)]
         /\ a_pc' = [a_pc EXCEPT ![t] =
                       IF halt_return(halt_count[u], acked) = 0 THEN "sctlr_read"
                       ELSE "disable_clk"]
    /\ UNCHANGED <<atos_lock, tbu_bw, tbu_clk, sctlr, a_tbu, a_cb, a_sctlr_orig, a_tries,
                   a_phys, a_out>>
    /\ UNCHANGED not_atos_vars

\* sctlr_orig = arm_smmu_cb_read(smmu, idx, ARM_SMMU_CB_SCTLR).
AtosSctlrRead(t) ==
    /\ a_pc[t] = "sctlr_read"
    /\ a_sctlr_orig' = [a_sctlr_orig EXCEPT ![t] = sctlr[a_cb[t]]]
    /\ a_pc' = [a_pc EXCEPT ![t] = "sctlr_write"]
    /\ UNCHANGED <<tbu_vars, a_tbu, a_cb, a_tries, a_phys, a_out>>
    /\ UNCHANGED not_atos_vars

\* arm_smmu_cb_write(..., sctlr_orig & ~(CFCFG | CFIE)), then the pending
\* fault status is cleared.
AtosSctlrWrite(t) ==
    /\ a_pc[t] = "sctlr_write"
    /\ sctlr' = [sctlr EXCEPT ![a_cb[t]] = FALSE]
    /\ a_pc' = [a_pc EXCEPT ![t] = "lock"]
    /\ UNCHANGED <<atos_lock, halt_count, halt_req, tbu_bw, tbu_clk, a_tbu, a_cb,
                   a_sctlr_orig, a_tries, a_phys, a_out>>
    /\ UNCHANGED not_atos_vars

\* spin_lock_irqsave(&atos_lock, flags).
AtosLock(t) ==
    /\ a_pc[t] = "lock"
    /\ atos_lock[atos_lock_id(a_tbu[t])] = NoThread
    /\ atos_lock' = [atos_lock EXCEPT ![atos_lock_id(a_tbu[t])] = t]
    /\ a_pc' = [a_pc EXCEPT ![t] = "trigger"]
    /\ UNCHANGED <<halt_count, halt_req, tbu_bw, tbu_clk, sctlr, a_tbu, a_cb,
                   a_sctlr_orig, a_tries, a_phys, a_out>>
    /\ UNCHANGED not_atos_vars

\* One iteration of the do-while: qsmmuv500_tbu_trigger_atos, the fault
\* status check, the loop condition.
AtosTrigger(t) ==
    /\ a_pc[t] = "trigger"
    /\ \E ph \in {0} \cup PhysAddrs :
         /\ a_phys' = [a_phys EXCEPT ![t] = ph]
         /\ a_pc' = [a_pc EXCEPT ![t] =
                       IF atos_retry(ph, a_tries[t]) THEN "trigger" ELSE "restore"]
    /\ a_tries' = [a_tries EXCEPT ![t] = @ + 1]
    /\ UNCHANGED <<tbu_vars, a_tbu, a_cb, a_sctlr_orig, a_out>>
    /\ UNCHANGED not_atos_vars

\* arm_smmu_cb_write(smmu, idx, ARM_SMMU_CB_SCTLR, sctlr_orig). The locals
\* sctlr_orig and attempt are not used again.
AtosRestore(t) ==
    /\ a_pc[t] = "restore"
    /\ sctlr' = [sctlr EXCEPT ![a_cb[t]] = a_sctlr_orig[t]]
    /\ a_pc' = [a_pc EXCEPT ![t] = "unlock"]
    /\ a_sctlr_orig' = [a_sctlr_orig EXCEPT ![t] = TRUE]
    /\ a_tries' = [a_tries EXCEPT ![t] = 0]
    /\ UNCHANGED <<atos_lock, halt_count, halt_req, tbu_bw, tbu_clk, a_tbu, a_cb,
                   a_phys, a_out>>
    /\ UNCHANGED not_atos_vars

\* spin_unlock_irqrestore(&atos_lock, flags).
AtosUnlock(t) ==
    /\ a_pc[t] = "unlock"
    /\ atos_lock' = [atos_lock EXCEPT ![atos_lock_id(a_tbu[t])] = NoThread]
    /\ a_pc' = [a_pc EXCEPT ![t] = "resume"]
    /\ UNCHANGED <<halt_count, halt_req, tbu_bw, tbu_clk, sctlr, a_tbu, a_cb,
                   a_sctlr_orig, a_tries, a_phys, a_out>>
    /\ UNCHANGED not_atos_vars

\* qsmmuv500_tbu_resume(tbu), under tbu->halt_lock.
AtosResume(t) ==
    /\ a_pc[t] = "resume"
    /\ LET u == a_tbu[t] IN
         /\ halt_count' = [halt_count EXCEPT ![u] = halt_count_after_resume(@)]
         /\ halt_req' = [halt_req EXCEPT ![u] = halt_req_after_resume(halt_count[u], @)]
    /\ a_pc' = [a_pc EXCEPT ![t] = "disable_clk"]
    /\ UNCHANGED <<atos_lock, tbu_bw, tbu_clk, sctlr, a_tbu, a_cb, a_sctlr_orig, a_tries,
                   a_phys, a_out>>
    /\ UNCHANGED not_atos_vars

\* Label disable_clk: clk_disable_unprepare(tbu->clk).
AtosDisableClk(t) ==
    /\ a_pc[t] = "disable_clk"
    /\ tbu_clk' = [tbu_clk EXCEPT ![a_tbu[t]] = @ - 1]
    /\ a_pc' = [a_pc EXCEPT ![t] = "disable_icc"]
    /\ UNCHANGED <<atos_lock, halt_count, halt_req, tbu_bw, sctlr, a_tbu, a_cb,
                   a_sctlr_orig, a_tries, a_phys, a_out>>
    /\ UNCHANGED not_atos_vars

\* Label disable_icc: icc_set_bw(tbu->path, 0, 0); return phys.
AtosDisableIcc(t) ==
    /\ a_pc[t] = "disable_icc"
    /\ tbu_bw' = [tbu_bw EXCEPT ![a_tbu[t]] = "zero"]
    /\ a_out' = [a_out EXCEPT ![t] = a_phys[t]]
    /\ a_pc' = [a_pc EXCEPT ![t] = "done"]
    /\ UNCHANGED <<atos_lock, halt_count, halt_req, tbu_clk, sctlr, a_tbu, a_cb,
                   a_sctlr_orig, a_tries, a_phys>>
    /\ UNCHANGED not_atos_vars

\* The caller has the result; the thread is free again.
AtosReturn(t) ==
    /\ a_pc[t] = "done"
    /\ a_pc' = [a_pc EXCEPT ![t] = "idle"]
    /\ a_tbu' = [a_tbu EXCEPT ![t] = 0]
    /\ a_cb' = [a_cb EXCEPT ![t] = 1]
    /\ a_sctlr_orig' = [a_sctlr_orig EXCEPT ![t] = TRUE]
    /\ a_tries' = [a_tries EXCEPT ![t] = 0]
    /\ a_phys' = [a_phys EXCEPT ![t] = 0]
    /\ a_out' = [a_out EXCEPT ![t] = 0]
    /\ UNCHANGED tbu_vars
    /\ UNCHANGED not_atos_vars

InitAtos ==
    /\ InitGate /\ InitThreadsEarly /\ InitCall /\ InitBuf /\ InitResolved /\ InitNoBridge
    /\ path = "null"
    /\ qcom_scm_convention = "ARM_64"
    /\ InitDlIdle /\ InitPtblIdle /\ InitKeyIdle /\ InitPasUntracked /\ InitTailIdle
    /\ InitTbu

NextAtos ==
    \E t \in AtosThreads :
        \/ CallIovaToPhys(t)
        \/ AtosIcc(t)
        \/ AtosClk(t)
        \/ AtosHalt(t)
        \/ AtosSctlrRead(t)
        \/ AtosSctlrWrite(t)
        \/ AtosLock(t)
        \/ AtosTrigger(t)
        \/ AtosRestore(t)
        \/ AtosUnlock(t)
        \/ AtosResume(t)
        \/ AtosDisableClk(t)
        \/ AtosDisableIcc(t)
        \/ AtosReturn(t)

SpecAtos == InitAtos /\ [][NextAtos]_vars

\* The callers inside the trigger sequence: at or after the first
\* qsmmuv500_tbu_trigger_atos and before the context bank's SCTLR is
\* written back.
InAtosSequence == {t \in AtosThreads : a_pc[t] \in {"trigger", "restore"}}

\* C27: for any interleaving of qsmmuv500_iova_to_phys calls, on the same
\* or on different TBUs, at most one caller at a time is inside the trigger
\* sequence.
C27_OneAtosAtATime ==
    /\ Cardinality(InAtosSequence) <= 1
    /\ \A t \in InAtosSequence : atos_lock[0] = t
    /\ \A t \in AtosThreads :
         a_pc[t] = "lock" /\ InAtosSequence # {} => ~ENABLED AtosLock(t)

C27_Witness ==
    \E t, u \in AtosThreads :
        /\ a_pc[t] = "restore" /\ a_tries[t] = 3
        /\ a_pc[u] = "lock" /\ a_tbu[u] # a_tbu[t]
        /\ ~ENABLED AtosLock(u)

\* The key operations with an output buffer.
OutKeyOps == {"derive_sw_secret", "generate_ice_key", "prepare_ice_key", "import_ice_key"}

\* C32: in the key operations with an output buffer the caller's buffer is
\* written only after a firmware call that returned 0, and then it is
\* written; an operation that returns an error (allocation failure or
\* failed call) has left it unwritten.
C32_OutputOnlyOnSuccess ==
    \A t \in Threads :
        op[t] \in OutKeyOps =>
            /\ caller_out[t] =>
                 /\ pc[t] \in {"k_exit", "done"}
                 /\ ret[t] = 0
                 /\ CallAt(t) # 0
            /\ (pc[t] = "done" /\ ret[t] # 0) =>
                 /\ ~caller_out[t]
                 /\ \A i \in 1..Len(buf_log[t]) : buf_log[t][i].e # "copy_out"
            /\ (pc[t] = "done" /\ ret[t] = 0) => caller_out[t]

\* One operation with an output has failed in its firmware call and left
\* the caller's buffer alone, while the firmware did write the output
\* buffer's memory.
C32_Witness ==
    \E t \in Threads :
        /\ op[t] \in OutKeyOps /\ pc[t] = "k_exit"
        /\ CallAt(t) # 0 /\ ret[t] # 0
        /\ ~caller_out[t]
        /\ \E i \in 1..2 : buf[t][i].st = "live" /\ buf[t][i].role = "out"
                             /\ buf[t][i].content = "key"

\* C29: qcom_scm_hdcp_available returns true only when the firmware was
\* asked and reported the call available, and false in every other case,
\* the failure of qcom_scm_clk_enable included.
C29_HdcpAvailableOnlyWhenReported ==
    \A t \in Threads :
        pc[t] = "done" /\ op[t] = "hdcp_available" =>
            /\ ret[t] \in {0, 1}
            /\ ret[t] = 1 => invoked[t] # "none" /\ res0[t] # 0

\* C30: when icc_set_bw fails inside qcom_scm_bw_enable (the count was
\* zero), the function returns the error with scm_vote_count unchanged and
\* the mutex released, and an enable that finds the count at zero always
\* makes the interconnect request.
C30_FailedVoteLeavesCountAndLock ==
    [][\A t \in Threads :
          /\ (pc[t] = "bw_enable_body" /\ pc'[t] = "done" /\ ret'[t] < 0) =>
                /\ scm_vote_count = 0
                /\ scm_vote_count' = 0
                /\ icc_tick' # icc_tick
                /\ icc_bw' = icc_bw
                /\ held_bw'[t] = held_bw[t]
                /\ scm_bw_lock = t /\ scm_bw_lock' = NoThread
          /\ (pc[t] = "bw_enable_body" /\ pc'[t] # pc[t] /\ scm_vote_count = 0) =>
                icc_tick' # icc_tick]_vars

\* One enable failed and returned its error; a later one made the request
\* again, succeeded and holds the only vote.
C30_Witness ==
    \E t, u \in Threads :
        /\ t # u
        /\ pc[t] = "done" /\ op[t] = "bw_enable" /\ ret[t] < 0 /\ held_bw[t] = 0
        /\ pc[u] = "done" /\ op[u] = "bw_enable" /\ ret[u] = 0 /\ held_bw[u] = 1
        /\ scm_vote_count = 1 /\ icc_bw = "max" /\ icc_tick = 0
        /\ scm_bw_lock = NoThread

(* --------------------------- boot addresses --------------------------- *)

\* The highest CPU index that may be present.
MaxCpu == 4

QCOM_SCM_BOOT_MAX_CPUS == 4

EOPNOTSUPP == 95

\* cpu_present_mask: the boot CPU and any of the others.
CpuSets == {S \in SUBSET (0..MaxCpu) : 0 \in S}

\* qcom_scm_cpu_warm_bits / qcom_scm_cpu_cold_bits, indexed from CPU 0.
boot_cpu_bits(kind) ==
    IF kind = "warm" THEN <<4, 2, 16, 64>> ELSE <<0, 1, 8, 32>>

\* The flag of the multi-cluster call.
boot_mc_flag(kind) ==
    IF kind = "warm" THEN "QCOM_SCM_BOOT_MC_FLAG_WARMBOOT" ELSE "QCOM_SCM_BOOT_MC_FLAG_COLDBOOT"

\* flags |= cpu_bits[cpu] over the CPUs of S; the bits of one table are
\* distinct, so the OR is the sum.
RECURSIVE boot_flags(_, _)
boot_flags(S, bits) ==
    IF S = {} THEN 0
    ELSE LET c == CHOOSE x \in S : TRUE
         IN bits[c + 1] + boot_flags(S \ {c}, bits)

boot_cpu_check_none(S) == FALSE

\* for_each_present_cpu: 'if (cpu >= QCOM_SCM_BOOT_MAX_CPUS) return -EINVAL'.
boot_cpu_check_fails(S) == \E c \in S : c >= QCOM_SCM_BOOT_MAX_CPUS

\* qcom_scm_set_boot_addr_mc: '!__scm || __get_convention() == LEGACY'
\* returns -EOPNOTSUPP before any call.
boot_mc_attempted(present, conv) == present /\ conv # "LEGACY"

boot_falls_back_never(r) == FALSE

\* 'if (qcom_scm_set_boot_addr_mc(...))': a non-zero result falls back.
boot_falls_back(r) == r # 0

\* qcom_scm_set_warm_boot_addr or qcom_scm_set_cold_boot_addr is called.
CallSetBootAddr ==
    /\ bt_pc = "idle"
    /\ \E k \in {"warm", "cold"} : bt_kind' = k
    /\ bt_pc' = "mc"
    /\ bt_calls' = <<>>
    /\ bt_mc_ret' = 0
    /\ bt_ret' = 0
    /\ UNCHANGED <<pre_tail_vars, fault_vars, hl_vars, find_vars, scm_present, present_cpus>>

\* qcom_scm_set_boot_addr_mc.
BootMc ==
    /\ bt_pc = "mc"
    /\ IF boot_mc_attempted(scm_present, qcom_scm_convention)
       THEN /\ \E r \in FwRet : bt_mc_ret' = r
            /\ bt_calls' = Append(bt_calls,
                                  [cmd |-> "QCOM_SCM_BOOT_SET_ADDR_MC",
                                   via |-> qcom_scm_call_transport(qcom_scm_convention, FALSE),
                                   flags |-> boot_mc_flag(bt_kind)])
       ELSE /\ bt_mc_ret' = -EOPNOTSUPP
            /\ UNCHANGED bt_calls
    /\ bt_pc' = "mc_done"
    /\ UNCHANGED <<pre_tail_vars, fault_vars, hl_vars, find_vars, scm_present, present_cpus, bt_kind, bt_ret>>

\* The test of the multi-cluster result: 'return 0' or the fallback.
BootMcDone ==
    /\ bt_pc = "mc_done"
    /\ IF boot_falls_back(bt_mc_ret)
       THEN /\ bt_pc' = "old"
            /\ UNCHANGED bt_ret
       ELSE /\ bt_pc' = "done"
            /\ bt_ret' = 0
    /\ UNCHANGED <<pre_tail_vars, fault_vars, hl_vars, find_vars, scm_present, present_cpus, bt_kind, bt_mc_ret,
                   bt_calls>>

\* qcom_scm_set_boot_addr: the loop over the present CPUs, then
\* qcom_scm_call_atomic.
BootOld ==
    /\ bt_pc = "old"
    /\ IF boot_cpu_check_fails(present_cpus)
       THEN /\ bt_ret' = -EINVAL
            /\ UNCHANGED bt_calls
       ELSE /\ \E r \in FwRet : bt_ret' = r
            /\ bt_calls' = Append(bt_calls,
                                  [cmd |-> "QCOM_SCM_BOOT_SET_ADDR",
                                   via |-> qcom_scm_call_transport(qcom_scm_convention, TRUE),
                                   flags |-> boot_flags(present_cpus, boot_cpu_bits(bt_kind))])
    /\ bt_pc' = "done"
    /\ UNCHANGED <<pre_tail_vars, fault_vars, hl_vars, find_vars, scm_present, present_cpus, bt_kind, bt_mc_ret>>

\* The call has returned.
BootReturn ==
    /\ bt_pc = "done"
    /\ bt_pc' = "idle"
    /\ bt_calls' = <<>>
    /\ bt_mc_ret' = 0
    /\ bt_ret' = 0
    /\ bt_kind' = "warm"
    /\ UNCHANGED <<pre_tail_vars, fault_vars, hl_vars, find_vars, scm_present, present_cpus>>

\* The boot address may be set before or after the SCM device is probed,
\* under any convention and any set of present CPUs.
InitBoot ==
    /\ InitGate /\ InitThreadsEarly /\ InitCall /\ InitBuf /\ InitResolved /\ InitNoBridge
    /\ path = "null"
    /\ InitDlIdle /\ InitPtblIdle /\ InitKeyIdle /\ InitTbu /\ InitPasUntracked
    /\ InitFaultIdle /\ InitHaltIdle /\ InitFindIdle
    /\ scm_present \in BOOLEAN
    /\ present_cpus \in CpuSets
    /\ bt_pc = "idle"
    /\ bt_kind = "warm"
    /\ bt_mc_ret = 0
    /\ bt_ret = 0
    /\ bt_calls = <<>>

NextBoot ==
    \/ CallSetBootAddr
    \/ BootMc
    \/ BootMcDone
    \/ BootOld
    \/ BootReturn

SpecBoot == InitBoot /\ [][NextBoot]_vars

\* The commands the running call has issued, in order.
BootCmds == [i \in 1..Len(bt_calls) |-> bt_calls[i].cmd]

\* C33: when the multi-cluster call succeeds the functions return 0 and
\* issue no old set-address call; when it fails, or is not attempted (no
\* SCM device or the legacy convention: -EOPNOTSUPP), they run the old
\* set-address call and return its result, which is -EINVAL with no
\* firmware call when a present CPU has index >= 4.
C33_BootAddrFallback ==
    /\ bt_pc \in {"mc_done", "old", "done"} =>
         IF scm_present /\ qcom_scm_convention # "LEGACY"
         THEN /\ bt_calls # <<>>
              /\ bt_calls[1].cmd = "QCOM_SCM_BOOT_SET_ADDR_MC"
         ELSE /\ bt_mc_ret = -EOPNOTSUPP
              /\ \A i \in 1..Len(bt_calls) : bt_calls[i].cmd # "QCOM_SCM_BOOT_SET_ADDR_MC"
    /\ bt_pc = "done" =>
         IF bt_mc_ret = 0
         THEN /\ bt_ret = 0
              /\ BootCmds = <<"QCOM_SCM_BOOT_SET_ADDR_MC">>
         ELSE IF \E c \in present_cpus : c >= 4
         THEN /\ bt_ret = -EINVAL
              /\ \A i \in 1..Len(bt_calls) : bt_calls[i].cmd # "QCOM_SCM_BOOT_SET_ADDR"
         ELSE /\ bt_calls # <<>>
              /\ bt_calls[Len(bt_calls)].cmd = "QCOM_SCM_BOOT_SET_ADDR"
              /\ bt_calls[Len(bt_calls)].via \in {"smc_atomic", "legacy_atomic"}
              /\ Len(bt_calls) = IF bt_mc_ret = -EOPNOTSUPP THEN 1 ELSE 2
              /\ bt_ret \in FwRet

\* Without an SCM device and with CPU 4 present, the call returned -EINVAL
\* and issued no firmware call at all.
C33_Witness ==
    /\ bt_pc = "done"
    /\ ~scm_present
    /\ 4 \in present_cpus
    /\ bt_mc_ret = -EOPNOTSUPP
    /\ bt_ret = -EINVAL
    /\ bt_calls = <<>>

(* ------------------------- context fault handler ---------------------- *)

EBUSY == 16

\* The fault status a context bank can show: a fault, stalled or not.
FsrFaults == {[fault |-> TRUE, ss |-> FALSE], [fault |-> TRUE, ss |-> TRUE]}

\* What report_iommu_fault can return: handled, keep stalled, not handled.
HandlerRet == {0, -EBUSY, -EINVAL}

\* FSR is write-one-to-clear: the bits written are cleared.
fsr_w1c(reg, val) ==
    [fault |-> reg.fault /\ ~val.fault, ss |-> reg.ss /\ ~val.ss]

\* The writes that clear a fault found in FSR: FSR itself, then RESUME when
\* the transaction is stalled.
fault_clear_writes(f, who) ==
    <<[reg |-> "FSR", by |-> who]>>
      \o (IF f.ss THEN <<[reg |-> "RESUME", val |-> "TERMINATE", by |-> who]>> ELSE <<>>)

cf_clears_always(tmp) == TRUE

\* 'if (tmp != -EBUSY)': the handler clears FSR and resumes.
cf_clears(tmp) == tmp # -EBUSY

\* 'if (!tmp || tmp == -EBUSY)': the client handled the fault.
cf_handled(tmp) == tmp = 0 \/ tmp = -EBUSY

\* The hardware records a fault on an idle context bank.
HwFault(b) ==
    /\ cf_pc[b] = "idle"
    /\ ~cb_fsr[b].fault
    /\ \E f \in FsrFaults : cb_fsr' = [cb_fsr EXCEPT ![b] = f]
    /\ UNCHANGED <<pre_tail_vars, boot_vars, hl_vars, find_vars, cf_pc, cf_fsr, cf_tmp, cf_log, cf_ret>>

\* The client that kept the transaction stalled terminates it and clears
\* FSR itself.
ClientClears(b) ==
    /\ cf_pc[b] = "idle"
    /\ cb_fsr[b].fault
    /\ cb_fsr' = [cb_fsr EXCEPT ![b] = NoFsr]
    /\ UNCHANGED <<pre_tail_vars, boot_vars, hl_vars, find_vars, cf_pc, cf_fsr, cf_tmp, cf_log, cf_ret>>

\* Lines 362-364: the handler reads FSR and returns IRQ_NONE without a fault.
CfRead(b) ==
    /\ cf_pc[b] = "idle"
    /\ cf_fsr' = [cf_fsr EXCEPT ![b] = cb_fsr[b]]
    /\ cf_log' = [cf_log EXCEPT ![b] = <<>>]
    /\ cf_tmp' = [cf_tmp EXCEPT ![b] = 0]
    /\ IF cb_fsr[b].fault
       THEN /\ cf_pc' = [cf_pc EXCEPT ![b] = "report"]
            /\ cf_ret' = [cf_ret EXCEPT ![b] = "none"]
       ELSE /\ cf_pc' = [cf_pc EXCEPT ![b] = "done"]
            /\ cf_ret' = [cf_ret EXCEPT ![b] = "IRQ_NONE"]
    /\ UNCHANGED <<pre_tail_vars, boot_vars, hl_vars, find_vars, cb_fsr>>

\* Lines 372-417: report_iommu_fault and the branch on its result.
CfReport(b) ==
    /\ cf_pc[b] = "report"
    /\ \E r \in HandlerRet :
         /\ cf_tmp' = [cf_tmp EXCEPT ![b] = r]
         /\ cf_pc' = [cf_pc EXCEPT ![b] = IF cf_handled(r) THEN "final" ELSE "verify1"]
         /\ cf_ret' = [cf_ret EXCEPT ![b] = IF cf_handled(r) THEN "IRQ_HANDLED" ELSE "IRQ_NONE"]
    /\ UNCHANGED <<pre_tail_vars, boot_vars, hl_vars, find_vars, cb_fsr, cf_fsr, cf_log>>

\* qcom_smmu_verify_fault: each of its two qsmmuv500_iova_to_phys calls,
\* when it gets as far as the halt, clears a fault it finds in FSR and
\* terminates a stalled transaction (lines 98-115, 266-274, 285-293).
CfVerify(b) ==
    /\ cf_pc[b] \in {"verify1", "verify2"}
    /\ \E performed \in BOOLEAN :
         IF performed /\ cb_fsr[b].fault
         THEN /\ cf_log' = [cf_log EXCEPT ![b] = @ \o fault_clear_writes(cb_fsr[b], "atos")]
              /\ cb_fsr' = [cb_fsr EXCEPT ![b] = fsr_w1c(@, @)]
         ELSE UNCHANGED <<cf_log, cb_fsr>>
    /\ cf_pc' = [cf_pc EXCEPT ![b] = IF cf_pc[b] = "verify1" THEN "verify2" ELSE "final"]
    /\ UNCHANGED <<pre_tail_vars, boot_vars, hl_vars, find_vars, cf_fsr, cf_tmp, cf_ret>>

\* Lines 433-440: clear FSR and resume, unless the client said -EBUSY.
CfFinal(b) ==
    /\ cf_pc[b] = "final"
    /\ IF cf_clears(cf_tmp[b])
       THEN /\ cf_log' = [cf_log EXCEPT ![b] = @ \o fault_clear_writes(cf_fsr[b], "handler")]
            /\ cb_fsr' = [cb_fsr EXCEPT ![b] = fsr_w1c(@, cf_fsr[b])]
       ELSE UNCHANGED <<cf_log, cb_fsr>>
    /\ cf_pc' = [cf_pc EXCEPT ![b] = "done"]
    /\ UNCHANGED <<pre_tail_vars, boot_vars, hl_vars, find_vars, cf_fsr, cf_tmp, cf_ret>>

\* Line 442: return ret.
CfReturn(b) ==
    /\ cf_pc[b] = "done"
    /\ cf_pc' = [cf_pc EXCEPT ![b] = "idle"]
    /\ cf_fsr' = [cf_fsr EXCEPT ![b] = NoFsr]
    /\ cf_tmp' = [cf_tmp EXCEPT ![b] = 0]
    /\ cf_log' = [cf_log EXCEPT ![b] = <<>>]
    /\ cf_ret' = [cf_ret EXCEPT ![b] = "none"]
    /\ UNCHANGED <<pre_tail_vars, boot_vars, hl_vars, find_vars, cb_fsr>>

InitFault ==
    /\ InitGate /\ InitThreads /\ InitCall /\ InitBuf /\ InitResolved /\ InitNoBridge

NextFault ==
    \E b \in FaultBanks :
        \/ HwFault(b)
        \/ ClientClears(b)
        \/ CfRead(b)
        \/ CfReport(b)
        \/ CfVerify(b)
        \/ CfFinal(b)
        \/ CfReturn(b)

SpecFault == InitFault /\ [][NextFault]_vars

\* The handler running on bank b wrote register r.
CfWrote(b, r) == \E i \in 1..Len(cf_log[b]) : cf_log[b][i].reg = r

\* C34: when the client's handler returns -EBUSY, qcom_smmu_context_fault
\* writes neither FSR nor RESUME and the recorded fault stays as it was;
\* for every other result FSR is cleared, and RESUME is written exactly
\* when the stalled bit was set.
C34_BusyKeepsStall ==
    \A b \in FaultBanks :
        /\ (cf_pc[b] \in {"final", "done"} /\ cf_fsr[b].fault /\ cf_tmp[b] = -EBUSY) =>
             /\ cf_log[b] = <<>>
             /\ cb_fsr[b] = cf_fsr[b]
        /\ (cf_pc[b] = "done" /\ cf_fsr[b].fault /\ cf_tmp[b] # -EBUSY) =>
             /\ CfWrote(b, "FSR")
             /\ \E i \in 1..Len(cf_log[b]) : cf_log[b][i].reg = "FSR" /\ cf_log[b][i].by = "handler"
             /\ cb_fsr[b] = NoFsr
             /\ CfWrote(b, "RESUME") <=> cf_fsr[b].ss
             /\ (\E i \in 1..Len(cf_log[b]) :
                    cf_log[b][i].reg = "RESUME" /\ cf_log[b][i].by = "handler") <=> cf_fsr[b].ss

\* On one bank the client said -EBUSY and the stalled fault is still
\* recorded; on the other the fault went unhandled and the handler
\* cleared FSR and terminated the stalled transaction.
C34_Witness ==
    /\ cf_pc[1] = "done" /\ cf_tmp[1] = -EBUSY /\ cf_fsr[1].ss /\ cb_fsr[1].ss
    /\ cf_ret[1] = "IRQ_HANDLED"
    /\ cf_pc[2] = "done" /\ cf_tmp[2] = -EINVAL /\ cf_fsr[2].ss /\ cb_fsr[2] = NoFsr
    /\ CfWrote(2, "RESUME")

(* ----------------------- TBU halt and resume -------------------------- *)

\* The highest halt_count a halt is called at.
MaxHalt == 3

\* What the direct callers of halt and resume leave alone.
not_halt_vars == <<pre_tail_vars_less_halt, boot_vars, fault_vars, find_vars>>

\* qsmmuv500_tbu_halt, lines 89-93: spin_lock_irqsave(&tbu->halt_lock), and
\* 'if (tbu->halt_count) { tbu->halt_count++; goto out; }'.
HaltEnter(t) ==
    /\ h_pc[t] = "idle"
    /\ \E u \in TBUs :
         /\ halt_lock[u] = NoThread
         /\ halt_count[u] < MaxHalt
         /\ halt_lock' = [halt_lock EXCEPT ![u] = t]
         /\ h_tbu' = [h_tbu EXCEPT ![t] = u]
         /\ h_c0' = [h_c0 EXCEPT ![t] = halt_count[u]]
         /\ h_r0' = [h_r0 EXCEPT ![t] = halt_req[u]]
         /\ IF halt_count[u] # 0
            THEN /\ halt_count' = [halt_count EXCEPT ![u] = halt_count_after_halt(@, TRUE)]
                 /\ h_pc' = [h_pc EXCEPT ![t] = "unlock"]
            ELSE /\ h_pc' = [h_pc EXCEPT ![t] = "raise"]
                 /\ UNCHANGED halt_count
    /\ h_op' = [h_op EXCEPT ![t] = "halt"]
    /\ h_ret' = [h_ret EXCEPT ![t] = 0]
    /\ UNCHANGED <<not_halt_vars, halt_req>>

\* Lines 95-97: DEBUG_SID_HALT_VAL is set in DEBUG_SID_HALT_REG.
HaltRaise(t) ==
    /\ h_pc[t] = "raise"
    /\ halt_req' = [halt_req EXCEPT ![h_tbu[t]] = TRUE]
    /\ h_pc' = [h_pc EXCEPT ![t] = "poll"]
    /\ UNCHANGED <<not_halt_vars, halt_count, halt_lock, h_op, h_tbu, h_ret, h_c0, h_r0>>

\* Lines 117-130: the poll for the acknowledgement; on timeout the request
\* is taken back and -ETIMEDOUT returned, else halt_count = 1.
HaltPoll(t) ==
    /\ h_pc[t] = "poll"
    /\ \E acked \in BOOLEAN :
         LET u == h_tbu[t] IN
         /\ halt_count' = [halt_count EXCEPT ![u] = halt_count_after_halt(@, acked)]
         /\ halt_req' = [halt_req EXCEPT ![u] = halt_req_after_halt(halt_count[u], @, acked)]
         /\ h_ret' = [h_ret EXCEPT ![t] = halt_return(halt_count[u], acked)]
    /\ h_pc' = [h_pc EXCEPT ![t] = "unlock"]
    /\ UNCHANGED <<not_halt_vars, halt_lock, h_op, h_tbu, h_c0, h_r0>>

\* qsmmuv500_tbu_resume, lines 142-157, under tbu->halt_lock.
ResumeEnter(t) ==
    /\ h_pc[t] = "idle"
    /\ \E u \in TBUs :
         /\ halt_lock[u] = NoThread
         /\ halt_lock' = [halt_lock EXCEPT ![u] = t]
         /\ h_tbu' = [h_tbu EXCEPT ![t] = u]
         /\ h_c0' = [h_c0 EXCEPT ![t] = halt_count[u]]
         /\ h_r0' = [h_r0 EXCEPT ![t] = halt_req[u]]
         /\ halt_count' = [halt_count EXCEPT ![u] = halt_count_after_resume(@)]
         /\ halt_req' = [halt_req EXCEPT ![u] = halt_req_after_resume(halt_count[u], @)]
    /\ h_op' = [h_op EXCEPT ![t] = "resume"]
    /\ h_ret' = [h_ret EXCEPT ![t] = 0]
    /\ h_pc' = [h_pc EXCEPT ![t] = "unlock"]
    /\ UNCHANGED not_halt_vars

\* Label out: spin_unlock_irqrestore(&tbu->halt_lock, flags).
HaltUnlock(t) ==
    /\ h_pc[t] = "unlock"
    /\ halt_lock' = [halt_lock EXCEPT ![h_tbu[t]] = NoThread]
    /\ h_pc' = [h_pc EXCEPT ![t] = "done"]
    /\ UNCHANGED <<not_halt_vars, halt_count, halt_req, h_op, h_tbu, h_ret, h_c0, h_r0>>

\* The caller has the result.
HaltReturn(t) ==
    /\ h_pc[t] = "done"
    /\ h_pc' = [h_pc EXCEPT ![t] = "idle"]
    /\ h_op' = [h_op EXCEPT ![t] = "none"]
    /\ h_tbu' = [h_tbu EXCEPT ![t] = 1]
    /\ h_ret' = [h_ret EXCEPT ![t] = 0]
    /\ h_c0' = [h_c0 EXCEPT ![t] = 0]
    /\ h_r0' = [h_r0 EXCEPT ![t] = FALSE]
    /\ UNCHANGED <<not_halt_vars, halt_count, halt_req, halt_lock>>

InitHalt ==
    /\ InitGate /\ InitThreads /\ InitCall /\ InitBuf /\ InitResolved /\ InitNoBridge
    /\ qcom_scm_convention = "ARM_64"

NextHalt ==
    \E t \in AtosThreads :
        \/ HaltEnter(t)
        \/ HaltRaise(t)
        \/ HaltPoll(t)
        \/ ResumeEnter(t)
        \/ HaltUnlock(t)
        \/ HaltReturn(t)

SpecHalt == InitHalt /\ [][NextHalt]_vars

\* The caller has finished the body of its halt or resume on its TBU.
HaltBodyDone(t) == h_pc[t] \in {"unlock", "done"}

\* C35: for any interleaving of halts and resumes on a TBU, halt_count is
\* never negative; an operation leaves the halt request raised where it
\* was clear only when it took halt_count from 0 to 1, and clear where it
\* was raised only when it took halt_count from 1 to 0; and a resume at
\* halt_count zero changes neither.
C35_HaltCountAndRequest ==
    /\ \A u \in TBUs :
         /\ halt_count[u] >= 0
         /\ halt_lock[u] = NoThread => (halt_req[u] <=> halt_count[u] > 0)
    /\ \A t \in AtosThreads :
         h_pc[t] = "unlock" =>
             LET u == h_tbu[t] IN
             /\ (halt_req[u] /\ ~h_r0[t]) => (h_c0[t] = 0 /\ halt_count[u] = 1)
             /\ (~halt_req[u] /\ h_r0[t]) => (h_c0[t] = 1 /\ halt_count[u] = 0)
             /\ (h_op[t] = "resume" /\ h_c0[t] = 0) =>
                    (halt_count[u] = 0 /\ halt_req[u] = h_r0[t])

\* A resume found halt_count at zero and left it there while the other
\* caller's halt holds the other TBU halted.
C35_Witness ==
    \E t, v \in AtosThreads :
        /\ t # v
        /\ h_pc[t] = "unlock" /\ h_op[t] = "resume" /\ h_c0[t] = 0
        /\ halt_count[h_tbu[t]] = 0 /\ ~halt_req[h_tbu[t]]
        /\ h_pc[v] = "done" /\ h_op[v] = "halt" /\ h_ret[v] = 0
        /\ halt_count[h_tbu[v]] = 1 /\ halt_req[h_tbu[v]]

\* C36: a halt called at halt_count zero whose acknowledgement does not
\* arrive returns -ETIMEDOUT, leaves halt_count at zero and has taken back
\* the halt request it raised; a halt called at halt_count > 0 returns 0,
\* adds one to the count and never gets to the poll.
C36_HaltTimeout ==
    \A t \in AtosThreads :
        h_op[t] = "halt" =>
            LET u == h_tbu[t] IN
            /\ h_pc[t] \in {"raise", "poll"} => h_c0[t] = 0
            /\ h_pc[t] = "poll" => (halt_req[u] /\ halt_count[u] = 0)
            /\ (HaltBodyDone(t) /\ h_ret[t] # 0) =>
                   /\ h_ret[t] = -ETIMEDOUT
                   /\ h_c0[t] = 0
            /\ (h_pc[t] = "unlock" /\ h_ret[t] = -ETIMEDOUT) =>
                   /\ halt_count[u] = 0
                   /\ ~halt_req[u]
            /\ (h_pc[t] = "unlock" /\ h_c0[t] > 0) =>
                   /\ h_ret[t] = 0
                   /\ halt_count[u] = h_c0[t] + 1
                   /\ halt_req[u] = h_r0[t]

\* One halt has timed out at count zero; another found the TBU halted
\* twice over and made it three.
C36_Witness ==
    \E t, v \in AtosThreads :
        /\ h_pc[t] = "unlock" /\ h_op[t] = "halt" /\ h_ret[t] = -ETIMEDOUT
        /\ halt_count[h_tbu[t]] = 0 /\ ~halt_req[h_tbu[t]]
        /\ h_pc[v] = "done" /\ h_op[v] = "halt" /\ h_c0[v] = 2
        /\ halt_count[h_tbu[v]] = 3

(* ------------------------------ TBU lookup ---------------------------- *)

\* The most TBUs registered.
MaxTbuList == 2

\* sid_range[0] and sid_range[1] of a TBU: start and length.
SidStarts == {0, 4}

SidLengths == {2, 4}

SidRanges == [start : SidStarts, len : SidLengths]

\* Stream ids looked up.
Sids == 0..9

\* Sequences of at most n elements of S.
SeqUpTo(S, n) == UNION {[1..k -> S] : k \in 0..n}

\* 'start <= sid && sid < end' with end = start + sid_range[1].
sid_in_range(r, sid) == r.start <= sid /\ sid < r.start + r.len

\* The cursor after list_for_each_entry ran from entry i to the end
\* without a break: container_of(&qsmmu->tbu_list, struct qsmmuv500_tbu,
\* list).
RECURSIVE find_tbu_walk(_, _, _)
find_tbu_walk(list, i, sid) ==
    IF i > Len(list) THEN [kind |-> "list_head", idx |-> 0]
    ELSE IF sid_in_range(list[i], sid) THEN [kind |-> "tbu", idx |-> i]
    ELSE find_tbu_walk(list, i + 1, sid)

\* qsmmuv500_find_tbu: tbu = NULL; the loop runs only on a non-empty list.
find_tbu(list, sid) ==
    IF list = <<>> THEN NullTbu ELSE find_tbu_walk(list, 1, sid)

\* qsmmuv500_find_tbu(qsmmu, sid) is called.
CallFindTbu ==
    /\ f_pc = "idle"
    /\ f_pc' = "walk"
    /\ UNCHANGED <<pre_tail_vars, boot_vars, fault_vars, hl_vars, tbu_list, f_sid, f_res>>

\* Lines 65-79, under qsmmu->tbu_list_lock.
FindTbuWalk ==
    /\ f_pc = "walk"
    /\ f_res' = find_tbu(tbu_list, f_sid)
    /\ f_pc' = "done"
    /\ UNCHANGED <<pre_tail_vars, boot_vars, fault_vars, hl_vars, tbu_list, f_sid>>

\* Any list of registered TBUs and any stream id.
InitFind ==
    /\ InitGate /\ InitThreadsEarly /\ InitCall /\ InitBuf /\ InitResolved /\ InitNoBridge
    /\ path = "null"
    /\ qcom_scm_convention = "ARM_64"
    /\ InitDlIdle /\ InitPtblIdle /\ InitKeyIdle /\ InitTbu /\ InitPasUntracked
    /\ InitBootIdle /\ InitFaultIdle /\ InitHaltIdle
    /\ tbu_list \in SeqUpTo(SidRanges, MaxTbuList)
    /\ f_sid \in Sids
    /\ f_pc = "idle"
    /\ f_res = NullTbu

NextFind ==
    \/ CallFindTbu
    \/ FindTbuWalk

SpecFind == InitFind /\ [][NextFind]_vars

\* The registered TBUs whose range contains the looked-up sid.
TbusContaining ==
    {i \in 1..Len(tbu_list) :
        tbu_list[i].start <= f_sid /\ f_sid < tbu_list[i].start + tbu_list[i].len}

\* C37: qsmmuv500_find_tbu returns a registered TBU whose range contains
\* the sid, and NULL whenever no registered TBU's range contains it, for an
\* empty and for a non-empty list.
C37_FindTbuOrNull ==
    f_pc = "done" =>
        IF TbusContaining # {}
        THEN f_res.kind = "tbu" /\ f_res.idx \in TbusContaining
        ELSE f_res = NullTbu

(* ------------- qsmmuv500_iova_to_phys: results and cleanup ------------- *)

\* Positions between the successful halt and the resume.
HaltedPcs == {"sctlr_read", "sctlr_write", "lock", "trigger", "restore", "unlock", "resume"}

\* Positions where the caller holds an enable of tbu->clk.
ClkHeldPcs == {"halt", "disable_clk"} \cup HaltedPcs

\* Positions where the context bank's SCTLR holds the masked value.
MaskedPcs == {"lock", "trigger", "restore"}

\* Positions where the caller holds atos_lock.
AtosLockPcs == {"trigger", "restore", "unlock"}

CallersAt(u, pcs) == {t \in AtosThreads : a_tbu[t] = u /\ a_pc[t] \in pcs}

\* C38: qsmmuv500_iova_to_phys returns 0 whenever the translation was not
\* performed and never returns an error code as an address: what it
\* returns is 0 or the address the translation gave.
C38_ZeroUnlessTranslated ==
    \A t \in AtosThreads :
        a_pc[t] = "done" =>
            /\ a_out[t] \in {0} \cup PhysAddrs
            /\ a_out[t] = a_phys[t]

\* C39: while a caller is between its successful halt and its resume, the
\* bandwidth request of its TBU stays at maximum, whatever other callers
\* on that TBU do.
C39_BandwidthWhileHalted ==
    \A t \in AtosThreads :
        a_pc[t] \in HaltedPcs => tbu_bw[a_tbu[t]] = "max"

\* C40: every qsmmuv500_iova_to_phys call gives back what it took, on every
\* path: the clock enables and the halts of a TBU are those of the callers
\* still inside, the halt request is raised only while a caller has the TBU
\* halted, SCTLR holds the masked value only between the caller's mask and
\* its restore, atos_lock is held only inside the trigger sequence, the
\* step that leaves after a raised bandwidth request sets it to zero, and
\* nothing is left when every caller has returned; the translation is
\* tried at most three times and only after a zero result.
C40_ReleasesWhatItAcquired ==
    /\ [](/\ \A u \in TBUs :
               /\ tbu_clk[u] = Cardinality(CallersAt(u, ClkHeldPcs))
               /\ halt_count[u] = Cardinality(CallersAt(u, HaltedPcs))
               /\ halt_req[u] <=> halt_count[u] > 0
          /\ \A t \in AtosThreads :
               /\ sctlr[t] <=> a_pc[t] \notin MaskedPcs
               /\ atos_lock[0] = t <=> a_pc[t] \in AtosLockPcs
               /\ a_tries[t] <= 3
               /\ (a_pc[t] = "trigger" /\ a_tries[t] > 0) => a_phys[t] = 0
               /\ a_pc[t] = "restore" => (a_tries[t] >= 1 /\ (a_phys[t] # 0 \/ a_tries[t] = 3))
          /\ (\A t \in AtosThreads : a_pc[t] \in {"idle", "done"}) =>
                 \A u \in TBUs : tbu_bw[u] = "zero" /\ tbu_clk[u] = 0 /\ halt_count[u] = 0)
    /\ [][\A t \in AtosThreads :
             (a_pc[t] \in {"clk", "disable_icc"} \cup ClkHeldPcs /\ a_pc'[t] = "done") =>
                 tbu_bw'[a_tbu[t]] = "zero"]_vars

\* A call whose halt timed out has returned 0 with everything given back,
\* while the other caller, on the same TBU, is in its third attempt.
C40_Witness ==
    \E t, v \in AtosThreads :
        /\ a_pc[t] = "done" /\ a_tbu[t] # 0 /\ a_out[t] = 0
        /\ a_pc[v] = "trigger" /\ a_tries[v] = 2 /\ a_tbu[v] = a_tbu[t]
        /\ tbu_clk[a_tbu[t]] = 1 /\ halt_count[a_tbu[t]] = 1

====
